---- MODULE Spec2Model ----
(***************************************************************************)
(* set-tab-color: environment-aware profile resolution.                    *)
(*                                                                         *)
(* The model covers the profile resolver (config.go), the application of   *)
(* a resolved profile through it2setcolor (config.go, iterm.go), the       *)
(* terminal/shell classifier with its terminal override, the name matcher  *)
(* and the walks over the process ancestry (terminal.go) and the           *)
(* command-line front end (main).                                          *)
(***************************************************************************)
EXTENDS Integers, Sequences, FiniteSets, TLC

VARIABLES
    pc,            \* position of the run
    config,        \* Config.Profiles: profile name -> TOML value
    profileName,   \* -profile argument
    terminalInfo,  \* TerminalShellInfo handed to the resolver
    profile,       \* *Profile returned by the resolver: <<>> is nil, <<p>> a profile
    err,           \* error returned by the last call: <<>> is nil
    effects,       \* it2setcolor executions issued so far, in order
    overlayArgs,   \* <<base, overlay>> handed to overlayProfile, <<>> when unused
    chain,         \* names of the ancestor processes, nearest first
    terminalOverride, \* -terminal argument
    procTable,     \* the process table: pid -> name, parent pid, failing lookup
    proc,          \* pid of the process handle a walk holds, 0 when it holds none
    lookups,       \* the process lookups a walk has made so far, in order
    termType,      \* TerminalType returned by detectTerminalType, "" before it returns
    matchArgs,     \* <<processName, terminalName, caseSensitive>>, <<>> when unused
    matched,       \* results of matchesTerminalName, <<>> before the call
    inChain,       \* results of isTerminalInAncestorChain, <<>> before the call
    flags          \* the parsed command line

walkVars == <<procTable, proc, lookups, termType>>
matchVars == <<matchArgs, matched, inChain>>

vars == <<pc, config, profileName, terminalInfo, profile, err, effects,
          overlayArgs, chain, terminalOverride, procTable, proc, lookups, termType,
          matchArgs, matched, inChain, flags>>

(* no walk over the process table is in progress *)
NoWalk ==
    /\ procTable = <<>>
    /\ proc = 0
    /\ lookups = <<>>
    /\ termType = ""

(* the matcher has not been called *)
NoMatch ==
    /\ matchArgs = <<>>
    /\ matched = <<>>
    /\ inChain = <<>>

(* the flag defaults of main *)
DefaultFlags ==
    [tab |-> "", fg |-> "", bg |-> "", preset |-> "", profile |-> "", terminal |-> "",
     listProfiles |-> FALSE, listColors |-> FALSE]

----------------------------------------------------------------------------
(* Bounds *)

MaxTerminals == 3
MaxChain == 3

----------------------------------------------------------------------------
(* TOML values as decoded into map[string]interface{} *)

Str(s) == [kind |-> "string", val |-> s]
NonStr == [kind |-> "integer", val |-> ""]
Tbl(m) == [kind |-> "table", val |-> m]

EmptyMap == [k \in {} |-> Str("")]

(* Profile struct: the zero value has every field "" *)
EmptyProfile == [Tab |-> "", Foreground |-> "", Background |-> "", Preset |-> ""]

Fields == {"Tab", "Foreground", "Background", "Preset"}

ProfileKeys == {"tab", "fg", "bg", "preset"}

(* TerminalType and ShellType string constants *)
TerminalTypeUnknown == "unknown"
TerminalTypeITerm2 == "iterm2"
TerminalTypeETTerminal == "etterminal"
TerminalTypeSSH == "ssh"
TerminalTypeTmux == "tmux"
TerminalTypeVSCode == "vscode"

ShellTypeUnknown == "unknown"
ShellTypeZsh == "zsh"
ShellTypeBash == "bash"

----------------------------------------------------------------------------
(* config.go *)

(* a map counted as a profile as soon as it has any key *)
isProfileMapAnyKey(m) == DOMAIN m # {}

isProfileMap(m) == \E key \in DOMAIN m : key \in ProfileKeys

(* m[key] when it is present and a string, "" otherwise *)
stringField(m, key) ==
    IF key \in DOMAIN m /\ m[key].kind = "string" THEN m[key].val ELSE ""

extractProfile(data) ==
    IF data.kind # "table" THEN [ok |-> FALSE, profile |-> EmptyProfile]
    ELSE IF ~isProfileMap(data.val) THEN [ok |-> FALSE, profile |-> EmptyProfile]
    ELSE [ok |-> TRUE,
          profile |-> [Tab        |-> stringField(data.val, "tab"),
                       Foreground |-> stringField(data.val, "fg"),
                       Background |-> stringField(data.val, "bg"),
                       Preset     |-> stringField(data.val, "preset")]]

(* overlayProfile without the preset block *)
overlayProfileNoPreset(base, overlay) ==
    [Tab        |-> IF overlay.Tab # "" THEN overlay.Tab ELSE base.Tab,
     Foreground |-> IF overlay.Foreground # "" THEN overlay.Foreground ELSE base.Foreground,
     Background |-> IF overlay.Background # "" THEN overlay.Background ELSE base.Background,
     Preset     |-> base.Preset]

(* an overlay that replaces the base as a whole *)
overlayProfileReplace(base, overlay) == overlay

overlayProfile(base, overlay) ==
    [Tab        |-> IF overlay.Tab # "" THEN overlay.Tab ELSE base.Tab,
     Foreground |-> IF overlay.Foreground # "" THEN overlay.Foreground ELSE base.Foreground,
     Background |-> IF overlay.Background # "" THEN overlay.Background ELSE base.Background,
     Preset     |-> IF overlay.Preset # "" THEN overlay.Preset ELSE base.Preset]

(* shell overlay, config.go:192-207 *)
applyShellOverlay(result, profileMap, shell) ==
    IF shell # ShellTypeUnknown /\ shell \in DOMAIN profileMap
          /\ extractProfile(profileMap[shell]).ok
    THEN overlayProfile(result, extractProfile(profileMap[shell]).profile)
    ELSE result

(* the loop of config.go:216-232 without its break: every terminal that    *)
(* has an entry is overlaid, so the last one wins                           *)
RECURSIVE applyTerminalOverlayNoBreak(_, _, _)
applyTerminalOverlayNoBreak(result, profileMap, terminals) ==
    IF terminals = <<>> THEN result
    ELSE IF Head(terminals) \in DOMAIN profileMap
              /\ extractProfile(profileMap[Head(terminals)]).ok
         THEN applyTerminalOverlayNoBreak(
                  overlayProfile(result, extractProfile(profileMap[Head(terminals)]).profile),
                  profileMap, Tail(terminals))
         ELSE applyTerminalOverlayNoBreak(result, profileMap, Tail(terminals))

(* the loop of config.go:216-232 run from the end of the list *)
RECURSIVE applyTerminalOverlayFromEnd(_, _, _)
applyTerminalOverlayFromEnd(result, profileMap, terminals) ==
    IF terminals = <<>> THEN result
    ELSE IF terminals[Len(terminals)] \in DOMAIN profileMap
              /\ extractProfile(profileMap[terminals[Len(terminals)]]).ok
         THEN overlayProfile(result,
                  extractProfile(profileMap[terminals[Len(terminals)]]).profile)
         ELSE applyTerminalOverlayFromEnd(result, profileMap,
                  SubSeq(terminals, 1, Len(terminals) - 1))

(* terminal loop, config.go:216-232: the first terminal whose key exists    *)
(* and extracts is overlaid, then the loop breaks                           *)
RECURSIVE applyTerminalOverlay(_, _, _)
applyTerminalOverlay(result, profileMap, terminals) ==
    IF terminals = <<>> THEN result
    ELSE IF Head(terminals) \in DOMAIN profileMap
              /\ extractProfile(profileMap[Head(terminals)]).ok
         THEN overlayProfile(result, extractProfile(profileMap[Head(terminals)]).profile)
         ELSE applyTerminalOverlay(result, profileMap, Tail(terminals))

(* fmt.Errorf("profile %q not found", profileName): the message as its     *)
(* literal parts and the quoted name                                        *)
ErrNotFoundNoName(name) == <<"profile ", "", " not found">>
ErrNotFound(name) == <<"profile ", name, " not found">>
ErrNotValid(name) == <<"profile ", name, " is not a valid profile">>

(* the resolver with the two overlays in the other order *)
getProfileShellLast(profiles, name, info) ==
    IF name \notin DOMAIN profiles
    THEN [profile |-> <<>>, err |-> ErrNotFound(name)]
    ELSE IF ~extractProfile(profiles[name]).ok
    THEN [profile |-> <<>>, err |-> ErrNotValid(name)]
    ELSE [profile |-> <<applyShellOverlay(
                           applyTerminalOverlay(extractProfile(profiles[name]).profile,
                                                profiles[name].val, info.Terminals),
                           profiles[name].val, info.Shell)>>,
          err |-> <<>>]

(* the resolver treating a missing nested shell key as an error *)
getProfileStrictNested(profiles, name, info) ==
    IF name \notin DOMAIN profiles
    THEN [profile |-> <<>>, err |-> ErrNotFound(name)]
    ELSE IF ~extractProfile(profiles[name]).ok
    THEN [profile |-> <<>>, err |-> ErrNotValid(name)]
    ELSE IF info.Shell # ShellTypeUnknown /\ info.Shell \notin DOMAIN profiles[name].val
    THEN [profile |-> <<>>, err |-> ErrNotFound(info.Shell)]
    ELSE [profile |-> <<applyTerminalOverlay(
                           applyShellOverlay(extractProfile(profiles[name]).profile,
                                             profiles[name].val, info.Shell),
                           profiles[name].val, info.Terminals)>>,
          err |-> <<>>]

(* the resolver skipping the overlays when the detection is not valid *)
getProfileValidGated(profiles, name, info) ==
    IF name \notin DOMAIN profiles
    THEN [profile |-> <<>>, err |-> ErrNotFound(name)]
    ELSE IF ~extractProfile(profiles[name]).ok
    THEN [profile |-> <<>>, err |-> ErrNotValid(name)]
    ELSE IF ~info.Valid
    THEN [profile |-> <<extractProfile(profiles[name]).profile>>, err |-> <<>>]
    ELSE [profile |-> <<applyTerminalOverlay(
                           applyShellOverlay(extractProfile(profiles[name]).profile,
                                             profiles[name].val, info.Shell),
                           profiles[name].val, info.Terminals)>>,
          err |-> <<>>]

getProfileWithTerminalInfo(profiles, name, info) ==
    IF name \notin DOMAIN profiles
    THEN [profile |-> <<>>, err |-> ErrNotFound(name)]
    ELSE IF ~extractProfile(profiles[name]).ok
    THEN [profile |-> <<>>, err |-> ErrNotValid(name)]
    ELSE IF profiles[name].kind # "table"
    THEN [profile |-> <<extractProfile(profiles[name]).profile>>, err |-> <<>>]
    ELSE [profile |-> <<applyTerminalOverlay(
                           applyShellOverlay(extractProfile(profiles[name]).profile,
                                             profiles[name].val, info.Shell),
                           profiles[name].val, info.Terminals)>>,
          err |-> <<>>]

----------------------------------------------------------------------------
(* Configurations the resolver is run on *)

LayerColors ==
    [work       |-> [tab |-> "blue",   fg |-> "white",  bg |-> "black",    preset |-> "Ocean"],
     zsh        |-> [tab |-> "cyan",   fg |-> "yellow", bg |-> "navy",     preset |-> "Solarized Dark"],
     tmux       |-> [tab |-> "red",    fg |-> "pink",   bg |-> "maroon",   preset |-> "Tango"],
     etterminal |-> [tab |-> "green",  fg |-> "lime",   bg |-> "olive",    preset |-> "Pastel"],
     iterm2     |-> [tab |-> "purple", fg |-> "orchid", bg |-> "darkgray", preset |-> "Smoooth"],
     unknown    |-> [tab |-> "gray",   fg |-> "silver", bg |-> "ivory",    preset |-> "Grass"]]

(* the keys a table of the given shape holds for a layer *)
ShapeMap(shape, layer) ==
    CASE shape = "empty"  -> EmptyMap
      [] shape = "other"  -> ("font" :> Str("mono"))
      [] shape = "tab"    -> ("tab" :> Str(LayerColors[layer].tab))
      [] shape = "fgbg"   -> ("fg" :> Str(LayerColors[layer].fg)
                              @@ "bg" :> Str(LayerColors[layer].bg))
      [] shape = "all"    -> ("tab" :> Str(LayerColors[layer].tab)
                              @@ "fg" :> Str(LayerColors[layer].fg)
                              @@ "bg" :> Str(LayerColors[layer].bg)
                              @@ "preset" :> Str(LayerColors[layer].preset))
      [] shape = "blank"  -> ("tab" :> Str("") @@ "preset" :> Str(LayerColors[layer].preset))
      [] shape = "inttab" -> ("tab" :> NonStr)

(* a nested entry: a table, or a scalar where a table is expected *)
NestedEntry(shape, layer) ==
    IF shape = "scalar" THEN Str(LayerColors[layer].tab)
    ELSE Tbl(ShapeMap(shape, layer))

ShellKeys == {ShellTypeZsh}
TerminalKeys == {TerminalTypeTmux, TerminalTypeETTerminal, TerminalTypeITerm2}
NestedKeys == ShellKeys \cup TerminalKeys

NestedShapes ==
    [zsh        |-> {"absent", "other", "all", "blank"},
     tmux       |-> {"absent", "scalar", "tab", "fgbg"},
     etterminal |-> {"absent", "empty", "tab", "fgbg"},
     iterm2     |-> {"absent", "inttab", "tab", "all"}]

OwnShapes == {"empty", "tab", "fgbg", "all"}

(* the table of a top-level profile: its own keys plus its nested entries *)
ProfileTable(own, nested) ==
    Tbl(ShapeMap(own, "work")
        @@ [k \in {n \in NestedKeys : nested[n] # "absent"} |-> NestedEntry(nested[k], k)])

NestedChoices == {f \in [NestedKeys -> {"absent", "scalar", "empty", "other", "tab",
                                         "fgbg", "all", "blank", "inttab"}] :
                     \A k \in NestedKeys : f[k] \in NestedShapes[k]}

Configs ==
    {EmptyMap, ("work" :> Str("blue")), ("dev" :> Tbl(ShapeMap("tab", "work")))}
    \cup {("work" :> ProfileTable(own, nested)) : own \in OwnShapes, nested \in NestedChoices}

ProfileNames == {"work", "nonexistent"}

RECURSIVE SeqsUpTo(_, _)
SeqsUpTo(S, n) ==
    IF n = 0 THEN {<<>>}
    ELSE SeqsUpTo(S, n - 1)
         \cup {Append(s, x) : s \in {t \in SeqsUpTo(S, n - 1) : Len(t) = n - 1}, x \in S}

TerminalInfos ==
    [Terminals : SeqsUpTo(TerminalKeys, MaxTerminals),
     Shell     : {ShellTypeUnknown, ShellTypeZsh, ShellTypeBash},
     Valid     : BOOLEAN]

----------------------------------------------------------------------------
(* Resolution of a profile for a given detection result *)

Init ==
    /\ pc = "start"
    /\ config \in Configs
    /\ profileName \in ProfileNames
    /\ terminalInfo \in TerminalInfos
    /\ profile = <<>>
    /\ err = <<>>
    /\ effects = <<>>
    /\ overlayArgs = <<>>
    /\ chain = <<>>
    /\ terminalOverride = ""
    /\ NoWalk
    /\ NoMatch
    /\ flags = DefaultFlags

Resolve ==
    /\ pc = "start"
    /\ LET r == getProfileWithTerminalInfo(config, profileName, terminalInfo)
       IN /\ profile' = r.profile
          /\ err' = r.err
    /\ pc' = "resolved"
    /\ UNCHANGED <<config, profileName, terminalInfo, effects, overlayArgs, chain,
                   terminalOverride, walkVars, matchVars, flags>>

Next == Resolve

Spec == Init /\ [][Next]_vars

----------------------------------------------------------------------------
(* What the resolver is expected to return, stated on the configuration    *)

FieldKey == [Tab |-> "tab", Foreground |-> "fg", Background |-> "bg", Preset |-> "preset"]

(* a table with at least one of tab, fg, bg, preset *)
IsFragment(v) == v.kind = "table" /\ (DOMAIN v.val \cap ProfileKeys) # {}

(* the value a fragment gives a field, "" when it does not set it *)
FragmentField(v, f) ==
    IF FieldKey[f] \in DOMAIN v.val /\ v.val[FieldKey[f]].kind = "string"
    THEN v.val[FieldKey[f]].val
    ELSE ""

ProfileExists == profileName \in DOMAIN config
Node == config[profileName]
Succeeded == pc = "resolved" /\ err = <<>> /\ Len(profile) = 1

HasOverride(k) == k \in DOMAIN Node.val /\ IsFragment(Node.val[k])

(* positions of the first terminal of the list with a valid nested entry *)
ChosenTerminals ==
    {i \in 1..Len(terminalInfo.Terminals) :
        /\ HasOverride(terminalInfo.Terminals[i])
        /\ \A j \in 1..(i - 1) : ~HasOverride(terminalInfo.Terminals[j])}

ChosenTerminal == terminalInfo.Terminals[CHOOSE i \in ChosenTerminals : TRUE]

TerminalLayerField(f) ==
    IF ChosenTerminals = {} THEN "" ELSE FragmentField(Node.val[ChosenTerminal], f)

ShellLayerField(f) ==
    IF terminalInfo.Shell # ShellTypeUnknown /\ HasOverride(terminalInfo.Shell)
    THEN FragmentField(Node.val[terminalInfo.Shell], f)
    ELSE ""

BaseShellField(f) ==
    IF ShellLayerField(f) # "" THEN ShellLayerField(f) ELSE FragmentField(Node, f)

(* C1: the terminal layer is the entry of the first terminal in list order  *)
(* that has a valid nested entry: every field that entry sets has its       *)
(* value, every field it leaves unset keeps the base+shell value, and no     *)
(* value of a later terminal's entry is merged in.                           *)
C1_FirstTerminalWins ==
    (Succeeded /\ ChosenTerminals # {}) =>
        /\ \A f \in Fields :
              /\ TerminalLayerField(f) # "" => profile[1][f] = TerminalLayerField(f)
              /\ TerminalLayerField(f) = "" => profile[1][f] = BaseShellField(f)
        /\ \A j \in 1..Len(terminalInfo.Terminals), f \in Fields :
              (/\ terminalInfo.Terminals[j] # ChosenTerminal
               /\ HasOverride(terminalInfo.Terminals[j])
               /\ FragmentField(Node.val[terminalInfo.Terminals[j]], f) # "")
              => profile[1][f] # FragmentField(Node.val[terminalInfo.Terminals[j]], f)

(* terminals [tmux, etterminal, iterm2], no tmux entry, etterminal sets only *)
(* tab, iterm2 sets every field: the etterminal tab is used and nothing of   *)
(* iterm2                                                                    *)
C1_Witness ==
    /\ Succeeded
    /\ terminalInfo.Terminals = <<TerminalTypeTmux, TerminalTypeETTerminal, TerminalTypeITerm2>>
    /\ ~HasOverride(TerminalTypeTmux)
    /\ HasOverride(TerminalTypeETTerminal)
    /\ HasOverride(TerminalTypeITerm2)
    /\ FragmentField(Node.val[TerminalTypeETTerminal], "Foreground") = ""
    /\ FragmentField(Node.val[TerminalTypeITerm2], "Foreground") = "orchid"
    /\ profile[1].Tab = "green"
    /\ profile[1].Foreground # "orchid"

(* C2: the resolved profile is base, then shell entry, then terminal entry: *)
(* a field set by the chosen terminal entry has the terminal value, a field *)
(* set only by the shell entry has the shell value, every other field has   *)
(* the base value.                                                          *)
C2_OverlayOrder ==
    Succeeded =>
        \A f \in Fields :
            /\ TerminalLayerField(f) # "" => profile[1][f] = TerminalLayerField(f)
            /\ (TerminalLayerField(f) = "" /\ ShellLayerField(f) # "")
                  => profile[1][f] = ShellLayerField(f)
            /\ (TerminalLayerField(f) = "" /\ ShellLayerField(f) = "")
                  => profile[1][f] = FragmentField(Node, f)

(* zsh and iterm2 both set tab, only zsh sets fg beside the base *)
C2_Witness ==
    /\ Succeeded
    /\ terminalInfo.Shell = ShellTypeZsh
    /\ ShellLayerField("Tab") = "cyan"
    /\ TerminalLayerField("Tab") = "purple"
    /\ ShellLayerField("Foreground") = "yellow"
    /\ TerminalLayerField("Foreground") = ""
    /\ TerminalLayerField("Background") = ""
    /\ ShellLayerField("Background") = "navy"
    /\ profile[1].Tab = "purple"
    /\ profile[1].Foreground = "yellow"

(* C3: a profile name that is not a top-level key fails with the not-found *)
(* error carrying that name, and no profile is returned.                    *)
C3_MissingProfile ==
    (pc = "resolved" /\ ~ProfileExists) =>
        /\ profile = <<>>
        /\ Len(err) = 3
        /\ err[2] = profileName
        /\ err[3] = " not found"

C3_Witness ==
    /\ pc = "resolved"
    /\ profileName = "nonexistent"
    /\ "work" \in DOMAIN config
    /\ IsFragment(config["work"])
    /\ terminalInfo.Terminals # <<>>
    /\ profile = <<>>
    /\ err # <<>>

(* C4: when the named profile is a valid profile, resolution succeeds for   *)
(* every detection result; with shell unknown and no terminals the result   *)
(* is the base profile, with no matching terminal entry it is base+shell.   *)
C4_NestedNeverFails ==
    (pc = "resolved" /\ ProfileExists /\ IsFragment(Node)) =>
        /\ err = <<>>
        /\ Len(profile) = 1
        /\ (terminalInfo.Shell = ShellTypeUnknown /\ terminalInfo.Terminals = <<>>)
             => \A f \in Fields : profile[1][f] = FragmentField(Node, f)
        /\ ChosenTerminals = {}
             => \A f \in Fields : profile[1][f] = BaseShellField(f)

(* a detected shell and detected terminals, none with a usable entry *)
C4_Witness ==
    /\ Succeeded
    /\ terminalInfo.Shell = ShellTypeBash
    /\ ShellTypeBash \notin DOMAIN Node.val
    /\ terminalInfo.Terminals = <<TerminalTypeTmux, TerminalTypeETTerminal>>
    /\ TerminalTypeTmux \in DOMAIN Node.val
    /\ TerminalTypeETTerminal \notin DOMAIN Node.val
    /\ ChosenTerminals = {}
    /\ profile[1].Tab = "blue"

(* C8: the resolution does not depend on the valid flag: resolving with    *)
(* the flag inverted returns the same profile and the same error.           *)
C8_ValidIsDiagnostic ==
    pc = "resolved" =>
        LET other == getProfileWithTerminalInfo(config, profileName,
                         [terminalInfo EXCEPT !.Valid = ~terminalInfo.Valid])
        IN other.profile = profile /\ other.err = err

(* an invalid detection whose shell and terminal overlays are both applied *)
C8_Witness ==
    /\ Succeeded
    /\ ~terminalInfo.Valid
    /\ ShellLayerField("Foreground") = "yellow"
    /\ TerminalLayerField("Tab") = "red"
    /\ profile[1].Tab = "red"
    /\ profile[1].Foreground = "yellow"

(* a table holding at least one nested shell or terminal fragment *)
IsNestingContainer(v) ==
    v.kind = "table" /\ \E k \in DOMAIN v.val \cap NestedKeys : IsFragment(v.val[k])

(* C9: resolution fails with the invalid-profile error exactly when the    *)
(* entry exists, has none of tab/fg/bg/preset and is not a nesting          *)
(* container; a container of nested shell/terminal tables is not rejected.  *)
C9_InvalidProfile ==
    (pc = "resolved" /\ ProfileExists) =>
        (err = <<"profile ", profileName, " is not a valid profile">>
            <=> (~IsFragment(Node) /\ ~IsNestingContainer(Node)))

(* the store with one nested key of the named profile taken out *)
WithoutNested(k) ==
    [config EXCEPT ![profileName] =
        Tbl([j \in DOMAIN Node.val \ {k} |-> Node.val[j]])]

(* the nested shell and terminal entries that exist but are no fragment *)
BrokenNested == {k \in DOMAIN Node.val \cap NestedKeys : ~IsFragment(Node.val[k])}

(* C21: a nested entry is used as a fragment exactly when it is a table    *)
(* with at least one of tab, fg, bg, preset; a nested shell or terminal     *)
(* entry that exists but is no fragment raises no error and leaves the      *)
(* result what it is without that entry, the terminal search going on with  *)
(* the next terminal of the list.                                           *)
C21_BrokenNestedIgnored ==
    (pc = "resolved" /\ ProfileExists /\ IsFragment(Node)) =>
        /\ err = <<>>
        /\ \A k \in DOMAIN Node.val \cap NestedKeys :
              extractProfile(Node.val[k]).ok <=> IsFragment(Node.val[k])
        /\ \A k \in BrokenNested :
              getProfileWithTerminalInfo(WithoutNested(k), profileName, terminalInfo).profile
                  = profile
        /\ \A i \in 1..Len(terminalInfo.Terminals) :
              (/\ terminalInfo.Terminals[i] \in BrokenNested
               /\ ChosenTerminals # {}
               /\ \A j \in 1..(i - 1) : ~HasOverride(terminalInfo.Terminals[j]))
              => \A f \in Fields :
                    TerminalLayerField(f) # "" => profile[1][f] = TerminalLayerField(f)

(* zsh holds only a font key, tmux is a scalar, etterminal an empty table:  *)
(* the iterm2 entry behind them is the terminal layer                       *)
C21_Witness ==
    /\ Succeeded
    /\ terminalInfo.Shell = ShellTypeZsh
    /\ terminalInfo.Terminals = <<TerminalTypeTmux, TerminalTypeETTerminal, TerminalTypeITerm2>>
    /\ BrokenNested = {ShellTypeZsh, TerminalTypeTmux, TerminalTypeETTerminal}
    /\ HasOverride(TerminalTypeITerm2)
    /\ FragmentField(Node, "Tab") = "blue"
    /\ profile[1].Tab = "purple"

----------------------------------------------------------------------------
(* overlayProfile on its own *)

FieldValues == {"", "blue", "red"}

Profiles ==
    [Tab : FieldValues, Foreground : FieldValues, Background : FieldValues,
     Preset : FieldValues]

(* the zero value of TerminalShellInfo *)
ZeroInfo == [Terminals |-> <<>>, Shell |-> "", Valid |-> FALSE]

InitOverlay ==
    /\ pc = "overlay"
    /\ overlayArgs \in {<<b, o>> : b \in Profiles, o \in Profiles}
    /\ config = EmptyMap
    /\ profileName = ""
    /\ terminalInfo = ZeroInfo
    /\ profile = <<>>
    /\ err = <<>>
    /\ effects = <<>>
    /\ chain = <<>>
    /\ terminalOverride = ""
    /\ NoWalk
    /\ NoMatch
    /\ flags = DefaultFlags

Overlay ==
    /\ pc = "overlay"
    /\ profile' = <<overlayProfile(overlayArgs[1], overlayArgs[2])>>
    /\ pc' = "overlaid"
    /\ UNCHANGED <<config, profileName, terminalInfo, err, effects, overlayArgs, chain,
                   terminalOverride, walkVars, matchVars, flags>>

NextOverlay == Overlay

SpecOverlay == InitOverlay /\ [][NextOverlay]_vars

(* C5: overlayProfile takes, for each of tab, foreground, background and   *)
(* preset on its own, the overlay's value when it is non-empty and the      *)
(* base's value otherwise; overlaying the empty profile returns the base.   *)
C5_OverlayFieldwise ==
    pc = "overlaid" =>
        /\ \A f \in Fields :
              profile[1][f] = IF overlayArgs[2][f] # "" THEN overlayArgs[2][f]
                              ELSE overlayArgs[1][f]
        /\ overlayArgs[2] = EmptyProfile => profile[1] = overlayArgs[1]

(* an overlay that sets tab and preset over a base that sets every field *)
C5_Witness ==
    /\ pc = "overlaid"
    /\ overlayArgs[1] = [Tab |-> "blue", Foreground |-> "blue", Background |-> "blue",
                         Preset |-> "blue"]
    /\ overlayArgs[2] = [Tab |-> "red", Foreground |-> "", Background |-> "",
                         Preset |-> "red"]
    /\ profile[1] = [Tab |-> "red", Foreground |-> "blue", Background |-> "blue",
                     Preset |-> "red"]

----------------------------------------------------------------------------
(* The resolver and overlayProfile side by side: the layers of one profile  *)

LayerShapes ==
    [zsh        |-> {"absent", "other", "blank", "all"},
     tmux       |-> {"absent", "scalar", "tab"},
     etterminal |-> {"absent", "empty", "fgbg"},
     iterm2     |-> {"absent", "all"}]

LayerChoices == {f \in NestedChoices : \A k \in NestedKeys : f[k] \in LayerShapes[k]}

LayerConfigs ==
    {("work" :> ProfileTable(own, nested)) : own \in {"tab", "all"}, nested \in LayerChoices}

LayerInfos ==
    [Terminals : SeqsUpTo(TerminalKeys, MaxTerminals),
     Shell     : {ShellTypeUnknown, ShellTypeZsh},
     Valid     : BOOLEAN]

InitResolveLayers ==
    /\ pc = "start"
    /\ config \in LayerConfigs
    /\ profileName = "work"
    /\ terminalInfo \in LayerInfos
    /\ profile = <<>>
    /\ err = <<>>
    /\ effects = <<>>
    /\ overlayArgs = <<>>
    /\ chain = <<>>
    /\ terminalOverride = ""
    /\ NoWalk
    /\ NoMatch
    /\ flags = DefaultFlags

InitLayers == InitResolveLayers \/ InitOverlay

NextLayers == Resolve \/ Overlay

SpecLayers == InitLayers /\ [][NextLayers]_vars

(* the values the layers of the resolution hold for a field: the base's,    *)
(* the detected shell's entry's and each detected terminal's entry's        *)
LayerValues(f) ==
    {FragmentField(Node, f)}
    \cup (IF terminalInfo.Shell \in DOMAIN Node.val /\ IsFragment(Node.val[terminalInfo.Shell])
          THEN {FragmentField(Node.val[terminalInfo.Shell], f)} ELSE {})
    \cup {FragmentField(Node.val[terminalInfo.Terminals[i]], f) :
             i \in {j \in 1..Len(terminalInfo.Terminals) :
                       HasOverride(terminalInfo.Terminals[j])}}

(* C24: overlayProfile never clears a field: a field that is non-empty in   *)
(* the base is non-empty in the overlaid profile; so every field that is    *)
(* non-empty in the base profile is non-empty in the resolved profile, and  *)
(* every non-empty field of the resolved profile is the value of the base,  *)
(* of the detected shell's entry or of a detected terminal's entry.         *)
C24_OverlayNeverClears ==
    /\ pc = "overlaid" =>
          \A f \in Fields : overlayArgs[1][f] # "" => profile[1][f] # ""
    /\ (pc = "resolved" /\ ProfileExists /\ IsFragment(Node)) =>
          /\ Len(profile) = 1
          /\ \A f \in Fields :
                /\ FragmentField(Node, f) # "" => profile[1][f] # ""
                /\ profile[1][f] # "" => profile[1][f] \in LayerValues(f)

(* the shell entry sets tab to the empty string and the terminal entry      *)
(* leaves tab out: the base tab stays, beside the shell's preset            *)
C24_Witness ==
    /\ Succeeded
    /\ terminalInfo.Shell = ShellTypeZsh
    /\ HasOverride(ShellTypeZsh)
    /\ "tab" \in DOMAIN Node.val[ShellTypeZsh].val
    /\ FragmentField(Node.val[ShellTypeZsh], "Tab") = ""
    /\ terminalInfo.Terminals = <<TerminalTypeETTerminal>>
    /\ HasOverride(TerminalTypeETTerminal)
    /\ FragmentField(Node, "Preset") = ""
    /\ profile[1] = [Tab |-> "blue", Foreground |-> "lime", Background |-> "olive",
                     Preset |-> "Solarized Dark"]

(* a list with each kind kept at its first occurrence only *)
RECURSIVE Dedup(_)
Dedup(s) ==
    IF s = <<>> THEN <<>>
    ELSE LET front == Dedup(SubSeq(s, 1, Len(s) - 1))
             last  == s[Len(s)]
         IN IF \E i \in 1..Len(front) : front[i] = last THEN front
            ELSE Append(front, last)

(* C25: resolving with the terminals list stripped of repeated kinds, each  *)
(* kind kept at its first occurrence, returns the same profile and error as *)
(* resolving with the list as detected.                                     *)
C25_DuplicatesIrrelevant ==
    pc = "resolved" =>
        LET other == getProfileWithTerminalInfo(config, profileName,
                         [terminalInfo EXCEPT !.Terminals = Dedup(@)])
        IN other.profile = profile /\ other.err = err

(* tmux twice around iterm2, both with an entry: the tmux entry is the      *)
(* terminal layer, as it is for [tmux, iterm2]                              *)
C25_Witness ==
    /\ Succeeded
    /\ terminalInfo.Terminals = <<TerminalTypeTmux, TerminalTypeITerm2, TerminalTypeTmux>>
    /\ Dedup(terminalInfo.Terminals) = <<TerminalTypeTmux, TerminalTypeITerm2>>
    /\ HasOverride(TerminalTypeTmux)
    /\ HasOverride(TerminalTypeITerm2)
    /\ profile[1].Tab = "red"
    /\ profile[1].Preset # "Smoooth"

----------------------------------------------------------------------------
(* applyProfile, config.go:267-318, and the it2setcolor calls of iterm.go   *)

(* How one runSetPreset/runSetColor call can end.  "ok": it2setcolor ran    *)
(* and exited 0.  "runfail": it2setcolor was started and cmd.Run returned   *)
(* an error.  "notrun": the call returned an error before exec (unknown     *)
(* colour, no home directory, it2setcolor missing).                         *)
RunOutcomes == {"ok", "runfail", "notrun"}

(* iterm.go:51-68 *)
runSetPreset(presetName, outcome) ==
    [executed |-> IF outcome = "notrun" THEN <<>>
                  ELSE <<[target |-> "preset", value |-> presetName]>>,
     err      |-> IF outcome = "ok" THEN <<>> ELSE <<outcome>>]

(* iterm.go:20-48 *)
runSetColor(target, color, outcome) ==
    [executed |-> IF outcome = "notrun" THEN <<>>
                  ELSE <<[target |-> target, value |-> color]>>,
     err      |-> IF outcome = "ok" THEN <<>> ELSE <<outcome>>]

(* the order of the four blocks of applyProfile, tab placed first *)
ApplySequenceTabFirst == <<"tab", "preset", "fg", "bg">>

(* the order of the four blocks of applyProfile *)
ApplySequence == <<"preset", "tab", "fg", "bg">>

StepPc == [preset |-> "apply_preset", tab |-> "apply_tab", fg |-> "apply_fg",
           bg |-> "apply_bg"]

(* where applyProfile goes after the block of a target *)
PcAfter(target) ==
    LET i == CHOOSE j \in 1..Len(ApplySequence) : ApplySequence[j] = target
    IN IF i = Len(ApplySequence) THEN "applied" ELSE StepPc[ApplySequence[i + 1]]

ProfileField(p, target) ==
    CASE target = "preset" -> p.Preset
      [] target = "tab"    -> p.Tab
      [] target = "fg"     -> p.Foreground
      [] target = "bg"     -> p.Background

ApplyErrorPrefix ==
    [preset |-> "error setting preset from profile: ",
     tab    |-> "error setting tab color from profile: ",
     fg     |-> "error setting foreground color from profile: ",
     bg     |-> "error setting background color from profile: "]

(* a block that notes the error of its call and goes on to the next block *)
ApplyBlockKeepGoing(target) ==
    /\ pc = StepPc[target]
    /\ \/ /\ ProfileField(profile[1], target) = ""
          /\ pc' = PcAfter(target)
          /\ UNCHANGED <<effects, err>>
       \/ /\ ProfileField(profile[1], target) # ""
          /\ \E outcome \in RunOutcomes :
                LET r == IF target = "preset"
                         THEN runSetPreset(profile[1].Preset, outcome)
                         ELSE runSetColor(target, ProfileField(profile[1], target), outcome)
                IN /\ effects' = effects \o r.executed
                   /\ pc' = PcAfter(target)
                   /\ IF r.err = <<>>
                      THEN UNCHANGED err
                      ELSE err' = <<ApplyErrorPrefix[target]>> \o r.err
    /\ UNCHANGED <<config, profileName, terminalInfo, profile, overlayArgs, chain,
                   terminalOverride, walkVars, matchVars, flags>>

(* one block of applyProfile: skipped when the field is empty, otherwise    *)
(* one call whose error ends applyProfile                                   *)
ApplyBlock(target) ==
    /\ pc = StepPc[target]
    /\ \/ /\ ProfileField(profile[1], target) = ""
          /\ pc' = PcAfter(target)
          /\ UNCHANGED <<effects, err>>
       \/ /\ ProfileField(profile[1], target) # ""
          /\ \E outcome \in RunOutcomes :
                LET r == IF target = "preset"
                         THEN runSetPreset(profile[1].Preset, outcome)
                         ELSE runSetColor(target, ProfileField(profile[1], target), outcome)
                IN /\ effects' = effects \o r.executed
                   /\ IF r.err = <<>>
                      THEN pc' = PcAfter(target) /\ UNCHANGED err
                      ELSE pc' = "apply_failed" /\ err' = <<ApplyErrorPrefix[target]>> \o r.err
    /\ UNCHANGED <<config, profileName, terminalInfo, profile, overlayArgs, chain,
                   terminalOverride, walkVars, matchVars, flags>>

ApplyPreset == ApplyBlock("preset")
ApplyTab == ApplyBlock("tab")
ApplyForeground == ApplyBlock("fg")
ApplyBackground == ApplyBlock("bg")

InitApply ==
    /\ pc = StepPc[ApplySequence[1]]
    /\ profile \in {<<p>> : p \in Profiles}
    /\ config = EmptyMap
    /\ profileName = ""
    /\ terminalInfo = ZeroInfo
    /\ err = <<>>
    /\ effects = <<>>
    /\ overlayArgs = <<>>
    /\ chain = <<>>
    /\ terminalOverride = ""
    /\ NoWalk
    /\ NoMatch
    /\ flags = DefaultFlags

NextApply == ApplyPreset \/ ApplyTab \/ ApplyForeground \/ ApplyBackground

SpecApply == InitApply /\ [][NextApply]_vars

(* the side effects of the non-empty fields, preset first, then tab, fg, bg *)
ExpectedEffects(p) ==
    SelectSeq(<<[target |-> "preset", value |-> p.Preset],
                [target |-> "tab", value |-> p.Tab],
                [target |-> "fg", value |-> p.Foreground],
                [target |-> "bg", value |-> p.Background]>>,
              LAMBDA e : e.value # "")

IsPrefix(s, t) == Len(s) <= Len(t) /\ SubSeq(t, 1, Len(s)) = s

ApplyReturned == pc \in {"applied", "apply_failed"}

(* C10 as stated: when applyProfile returns, one side effect has been      *)
(* issued per non-empty field and none for an empty field, in the order     *)
(* preset, tab, foreground, background.                                     *)
C10_OneEffectPerField ==
    ApplyReturned => effects = ExpectedEffects(profile[1])

(* C10 amended: the side effects issued are at every moment a prefix of    *)
(* the non-empty fields in the order preset, tab, foreground, background    *)
(* (never one for an empty field, never two for one field, never out of     *)
(* order); when applyProfile returns without error there is exactly one     *)
(* per non-empty field, and it returns an error only from a call that       *)
(* failed, after which nothing more is issued.                              *)
C10_EffectsInOrder ==
    /\ IsPrefix(effects, ExpectedEffects(profile[1]))
    /\ pc = "applied" => (effects = ExpectedEffects(profile[1]) /\ err = <<>>)
    /\ pc = "apply_failed" => err # <<>>

(* a profile with every field set, applied completely *)
C10_Witness ==
    /\ pc = "applied"
    /\ profile[1] = [Tab |-> "blue", Foreground |-> "red", Background |-> "blue",
                     Preset |-> "red"]
    /\ effects = <<[target |-> "preset", value |-> "red"],
                   [target |-> "tab", value |-> "blue"],
                   [target |-> "fg", value |-> "red"],
                   [target |-> "bg", value |-> "blue"]>>

(* the effects issued for a target *)
EffectsFor(target) == SelectSeq(effects, LAMBDA e : e.target = target)

(* C29: applyProfile ends at the first call that fails: the error it       *)
(* returns is the one of that call under the prefix of its field, every     *)
(* non-empty field before it in the order preset, tab, foreground,          *)
(* background keeps its one side effect, the failed field has at most the   *)
(* one attempt, and no field after it has any.                              *)
C29_StopsAtFirstFailure ==
    err # <<>> =>
        /\ pc = "apply_failed"
        /\ \E i \in 1..Len(ApplySequence) :
              /\ err[1] = ApplyErrorPrefix[ApplySequence[i]]
              /\ Len(err) = 2
              /\ err[2] \in {"runfail", "notrun"}
              /\ ProfileField(profile[1], ApplySequence[i]) # ""
              /\ \A j \in 1..(i - 1) :
                    EffectsFor(ApplySequence[j]) =
                        IF ProfileField(profile[1], ApplySequence[j]) = "" THEN <<>>
                        ELSE <<[target |-> ApplySequence[j],
                                value  |-> ProfileField(profile[1], ApplySequence[j])]>>
              /\ EffectsFor(ApplySequence[i]) =
                    IF err[2] = "notrun" THEN <<>>
                    ELSE <<[target |-> ApplySequence[i],
                            value  |-> ProfileField(profile[1], ApplySequence[i])]>>
              /\ \A j \in (i + 1)..Len(ApplySequence) : EffectsFor(ApplySequence[j]) = <<>>

(* every field set, the tab call fails after the preset was applied: the    *)
(* preset stays applied, foreground and background are not touched          *)
C29_Witness ==
    /\ pc = "apply_failed"
    /\ profile[1] = [Tab |-> "blue", Foreground |-> "red", Background |-> "blue",
                     Preset |-> "red"]
    /\ effects = <<[target |-> "preset", value |-> "red"],
                   [target |-> "tab", value |-> "blue"]>>
    /\ err = <<"error setting tab color from profile: ", "runfail">>

----------------------------------------------------------------------------
(* Detection: process names are sequences of characters                     *)

UpperCase == <<"A", "B", "C", "D", "E", "F", "G", "H", "I", "J", "K", "L", "M",
               "N", "O", "P", "Q", "R", "S", "T", "U", "V", "W", "X", "Y", "Z">>
LowerCase == <<"a", "b", "c", "d", "e", "f", "g", "h", "i", "j", "k", "l", "m",
               "n", "o", "p", "q", "r", "s", "t", "u", "v", "w", "x", "y", "z">>

(* strings.ToLower *)
ToLower(str) ==
    [i \in 1..Len(str) |->
        IF \E j \in 1..Len(UpperCase) : UpperCase[j] = str[i]
        THEN LowerCase[CHOOSE j \in 1..Len(UpperCase) : UpperCase[j] = str[i]]
        ELSE str[i]]

(* strings.HasPrefix *)
HasPrefix(str, prefix) ==
    Len(str) >= Len(prefix) /\ SubSeq(str, 1, Len(prefix)) = prefix

(* a matcher that accepts the candidate as a bare prefix *)
matchesTerminalNameAnyPrefix(processName, terminalName, caseSensitive) ==
    LET name     == IF caseSensitive THEN processName ELSE ToLower(processName)
        terminal == IF caseSensitive THEN terminalName ELSE ToLower(terminalName)
    IN HasPrefix(name, terminal)

(* terminal.go:84-108 *)
matchesTerminalName(processName, terminalName, caseSensitive) ==
    LET name     == IF caseSensitive THEN processName ELSE ToLower(processName)
        terminal == IF caseSensitive THEN terminalName ELSE ToLower(terminalName)
    IN \/ name = terminal
       \/ HasPrefix(name, terminal \o <<" ">>)

(* the terminal candidates in the order they are tested, terminal.go:52-78 *)
TerminalCandidates ==
    <<[name |-> <<"s", "s", "h", "d">>, caseSensitive |-> TRUE, kind |-> TerminalTypeSSH],
      [name |-> <<"t", "m", "u", "x">>, caseSensitive |-> TRUE, kind |-> TerminalTypeTmux],
      [name |-> <<"e", "t", "t", "e", "r", "m", "i", "n", "a", "l">>,
       caseSensitive |-> TRUE, kind |-> TerminalTypeETTerminal],
      [name |-> <<"i", "t", "e", "r", "m", "2">>, caseSensitive |-> FALSE,
       kind |-> TerminalTypeITerm2],
      [name |-> <<"C", "o", "d", "e", " ", "H", "e", "l", "p", "e", "r">>,
       caseSensitive |-> FALSE, kind |-> TerminalTypeVSCode]>>

(* the shell candidates in the order they are tested *)
ShellCandidates ==
    <<[name |-> <<"z", "s", "h">>, kind |-> "zsh"],
      [name |-> <<"b", "a", "s", "h">>, kind |-> "bash"],
      [name |-> <<"f", "i", "s", "h">>, kind |-> "fish"],
      [name |-> <<"t", "c", "s", "h">>, kind |-> "tcsh"],
      [name |-> <<"c", "s", "h">>, kind |-> "csh"],
      [name |-> <<"k", "s", "h">>, kind |-> "ksh"],
      [name |-> <<"s", "h">>, kind |-> "sh"]>>

(* the candidates tested from the second on: sshd is never recognised *)
terminalOfSkipFirst(name) ==
    LET hits == {i \in 2..Len(TerminalCandidates) :
                    matchesTerminalName(name, TerminalCandidates[i].name,
                                        TerminalCandidates[i].caseSensitive)}
    IN IF hits = {} THEN TerminalTypeUnknown
       ELSE TerminalCandidates[CHOOSE i \in hits : \A j \in hits : i <= j].kind

(* the kind of the first candidate the name matches, "unknown" when none *)
terminalOf(name) ==
    LET hits == {i \in 1..Len(TerminalCandidates) :
                    matchesTerminalName(name, TerminalCandidates[i].name,
                                        TerminalCandidates[i].caseSensitive)}
    IN IF hits = {} THEN TerminalTypeUnknown
       ELSE TerminalCandidates[CHOOSE i \in hits : \A j \in hits : i <= j].kind

shellOf(name) ==
    LET hits == {i \in 1..Len(ShellCandidates) :
                    matchesTerminalName(name, ShellCandidates[i].name, TRUE)}
    IN IF hits = {} THEN ShellTypeUnknown
       ELSE ShellCandidates[CHOOSE i \in hits : \A j \in hits : i <= j].kind

(* a pass that keeps only the first terminal it meets *)
RECURSIVE classifyChainFirstTerminal(_, _)
classifyChainFirstTerminal(names, info) ==
    IF names = <<>> THEN info
    ELSE LET withShell ==
                 IF info.Shell = ShellTypeUnknown /\ shellOf(Head(names)) # ShellTypeUnknown
                 THEN [info EXCEPT !.Shell = shellOf(Head(names)),
                                   !.Valid = (info.Terminals = <<>>)]
                 ELSE info
             withTerminal ==
                 IF terminalOf(Head(names)) # TerminalTypeUnknown /\ info.Terminals = <<>>
                 THEN [withShell EXCEPT !.Terminals = Append(@, terminalOf(Head(names)))]
                 ELSE withShell
         IN classifyChainFirstTerminal(Tail(names), withTerminal)

(* a pass that calls every chain with a shell valid *)
RECURSIVE classifyChainAlwaysValid(_, _)
classifyChainAlwaysValid(names, info) ==
    IF names = <<>> THEN info
    ELSE LET withShell ==
                 IF info.Shell = ShellTypeUnknown /\ shellOf(Head(names)) # ShellTypeUnknown
                 THEN [info EXCEPT !.Shell = shellOf(Head(names)), !.Valid = TRUE]
                 ELSE info
             withTerminal ==
                 IF terminalOf(Head(names)) # TerminalTypeUnknown
                 THEN [withShell EXCEPT !.Terminals = Append(@, terminalOf(Head(names)))]
                 ELSE withShell
         IN classifyChainAlwaysValid(Tail(names), withTerminal)

(* a pass in which a more distant shell replaces the recorded one *)
RECURSIVE classifyChainLastShell(_, _)
classifyChainLastShell(names, info) ==
    IF names = <<>> THEN info
    ELSE LET withShell ==
                 IF shellOf(Head(names)) # ShellTypeUnknown
                 THEN [info EXCEPT !.Shell = shellOf(Head(names)),
                                   !.Valid = IF info.Shell = ShellTypeUnknown
                                             THEN info.Terminals = <<>> ELSE @]
                 ELSE info
             withTerminal ==
                 IF terminalOf(Head(names)) # TerminalTypeUnknown
                 THEN [withShell EXCEPT !.Terminals = Append(@, terminalOf(Head(names)))]
                 ELSE withShell
         IN classifyChainLastShell(Tail(names), withTerminal)

(* one pass over the chain, nearest ancestor first: the first shell is kept *)
(* with whether no terminal had been matched before it, every terminal      *)
(* match is appended                                                        *)
RECURSIVE classifyChain(_, _)
classifyChain(names, info) ==
    IF names = <<>> THEN info
    ELSE LET withShell ==
                 IF info.Shell = ShellTypeUnknown /\ shellOf(Head(names)) # ShellTypeUnknown
                 THEN [info EXCEPT !.Shell = shellOf(Head(names)),
                                   !.Valid = (info.Terminals = <<>>)]
                 ELSE info
             withTerminal ==
                 IF terminalOf(Head(names)) # TerminalTypeUnknown
                 THEN [withShell EXCEPT !.Terminals = Append(@, terminalOf(Head(names)))]
                 ELSE withShell
         IN classifyChain(Tail(names), withTerminal)

(* the override string taken as a terminal type without validating it *)
parseTerminalTypeUnchecked(name) ==
    IF name = "" THEN TerminalTypeUnknown ELSE name

(* the terminal type an override string names, "unknown" when it names none *)
parseTerminalType(name) ==
    IF name \in {TerminalTypeITerm2, TerminalTypeVSCode, TerminalTypeSSH,
                 TerminalTypeTmux, TerminalTypeETTerminal}
    THEN name
    ELSE TerminalTypeUnknown

(* detection with the override appended instead of prepended *)
detectTerminalAndShellAppend(names, override) ==
    LET detected == classifyChain(names, [Terminals |-> <<>>, Shell |-> ShellTypeUnknown,
                                          Valid |-> FALSE])
    IN IF parseTerminalType(override) # TerminalTypeUnknown
       THEN [detected EXCEPT !.Terminals = Append(@, parseTerminalType(override))]
       ELSE detected

(* detection in which a valid override is in the list before the pass over *)
(* the chain starts, as if it were the nearest ancestor                     *)
detectTerminalAndShellSeeded(names, override) ==
    IF parseTerminalType(override) # TerminalTypeUnknown
    THEN classifyChain(names, [Terminals |-> <<parseTerminalType(override)>>,
                               Shell |-> ShellTypeUnknown, Valid |-> FALSE])
    ELSE classifyChain(names, [Terminals |-> <<>>, Shell |-> ShellTypeUnknown,
                               Valid |-> FALSE])

detectTerminalAndShell(names, override) ==
    LET detected == classifyChain(names, [Terminals |-> <<>>, Shell |-> ShellTypeUnknown,
                                          Valid |-> FALSE])
    IN IF parseTerminalType(override) # TerminalTypeUnknown
       THEN [detected EXCEPT !.Terminals = <<parseTerminalType(override)>> \o @]
       ELSE detected

ProcessNames ==
    {<<"z", "s", "h">>,
     <<"b", "a", "s", "h">>,
     <<"s", "h">>,
     <<"t", "m", "u", "x">>,
     <<"s", "s", "h", "d">>,
     <<"i", "T", "e", "r", "m", "2">>,
     <<"e", "t", "t", "e", "r", "m", "i", "n", "a", "l">>,
     <<"l", "o", "g", "i", "n">>}

Overrides == {"", "iterm2", "vscode", "ssh", "tmux", "etterminal", "invalid", "unknown"}

InitDetect ==
    /\ pc = "detect"
    /\ chain \in SeqsUpTo(ProcessNames, MaxChain)
    /\ terminalOverride \in Overrides
    /\ terminalInfo = ZeroInfo
    /\ config = EmptyMap
    /\ profileName = ""
    /\ profile = <<>>
    /\ err = <<>>
    /\ effects = <<>>
    /\ overlayArgs = <<>>
    /\ NoWalk
    /\ NoMatch
    /\ flags = DefaultFlags

Detect ==
    /\ pc = "detect"
    /\ terminalInfo' = detectTerminalAndShell(chain, terminalOverride)
    /\ pc' = "detected"
    /\ UNCHANGED <<config, profileName, profile, err, effects, overlayArgs, chain,
                   terminalOverride, walkVars, matchVars, flags>>

NextDetect == Detect

SpecDetect == InitDetect /\ [][NextDetect]_vars

(* the kind each accepted override string stands for *)
OverrideKind ==
    [iterm2 |-> TerminalTypeITerm2, vscode |-> TerminalTypeVSCode, ssh |-> TerminalTypeSSH,
     tmux |-> TerminalTypeTmux, etterminal |-> TerminalTypeETTerminal]

(* the terminal kinds of the chain entries, in chain order *)
RECURSIVE ChainTerminals(_)
ChainTerminals(names) ==
    IF names = <<>> THEN <<>>
    ELSE (IF terminalOf(Head(names)) # TerminalTypeUnknown
          THEN <<terminalOf(Head(names))>> ELSE <<>>)
         \o ChainTerminals(Tail(names))

(* C6: with an override naming a valid terminal kind, the terminals list   *)
(* is that kind followed by the kinds detected from the chain in their      *)
(* original order.                                                          *)
C6_OverridePrepended ==
    (pc = "detected" /\ terminalOverride \in DOMAIN OverrideKind) =>
        /\ Len(terminalInfo.Terminals) = Len(ChainTerminals(chain)) + 1
        /\ terminalInfo.Terminals[1] = OverrideKind[terminalOverride]
        /\ Tail(terminalInfo.Terminals) = ChainTerminals(chain)

(* override vscode ahead of a chain with tmux inside an ssh session *)
C6_Witness ==
    /\ pc = "detected"
    /\ terminalOverride = "vscode"
    /\ chain = <<<<"z", "s", "h">>, <<"t", "m", "u", "x">>, <<"s", "s", "h", "d">>>>
    /\ terminalInfo.Terminals = <<TerminalTypeVSCode, TerminalTypeTmux, TerminalTypeSSH>>

(* C7: with an empty override or one naming no terminal kind, terminals,   *)
(* shell and valid are those of the same chain without an override.         *)
C7_InvalidOverrideIgnored ==
    (pc = "detected" /\ terminalOverride \notin DOMAIN OverrideKind) =>
        terminalInfo = detectTerminalAndShell(chain, "")

(* override "invalid" on a chain with a terminal nearer than the shell *)
C7_Witness ==
    /\ pc = "detected"
    /\ terminalOverride = "invalid"
    /\ chain = <<<<"t", "m", "u", "x">>, <<"z", "s", "h">>, <<"i", "T", "e", "r", "m", "2">>>>
    /\ terminalInfo = [Terminals |-> <<TerminalTypeTmux, TerminalTypeITerm2>>,
                       Shell |-> "zsh", Valid |-> FALSE]

(* the chain positions whose name matches a terminal, a shell candidate *)
TerminalPositions(names) ==
    {i \in 1..Len(names) : terminalOf(names[i]) # TerminalTypeUnknown}
ShellPositions(names) ==
    {i \in 1..Len(names) : shellOf(names[i]) # ShellTypeUnknown}

(* the k-th smallest member of a set of positions *)
NthOf(positions, k) ==
    CHOOSE i \in positions : Cardinality({j \in positions : j <= i}) = k

(* the terminals list without a prepended override *)
DetectedTerminals ==
    IF terminalOverride \in DOMAIN OverrideKind
    THEN Tail(terminalInfo.Terminals)
    ELSE terminalInfo.Terminals

(* C12: the terminals list has one entry for every chain entry that        *)
(* matches a terminal candidate, in chain order and with repeats kept;      *)
(* detection does not stop at the first terminal.                           *)
C12_EveryTerminalKept ==
    pc = "detected" =>
        /\ Len(DetectedTerminals) = Cardinality(TerminalPositions(chain))
        /\ \A k \in 1..Len(DetectedTerminals) :
              DetectedTerminals[k] = terminalOf(chain[NthOf(TerminalPositions(chain), k)])

(* tmux, etterminal, tmux yields Tmux, ETTerminal, Tmux *)
C12_Witness ==
    /\ pc = "detected"
    /\ terminalOverride = ""
    /\ chain = <<<<"t", "m", "u", "x">>,
                 <<"e", "t", "t", "e", "r", "m", "i", "n", "a", "l">>,
                 <<"t", "m", "u", "x">>>>
    /\ terminalInfo.Terminals = <<TerminalTypeTmux, TerminalTypeETTerminal, TerminalTypeTmux>>

(* C13: valid is true exactly when a shell was matched and no terminal was *)
(* matched nearer than the first shell; it is false when a terminal         *)
(* precedes the first shell or no shell was matched, so valid implies a     *)
(* shell other than Unknown.                                                *)
C13_ValidMeansShellFirst ==
    pc = "detected" =>
        /\ terminalInfo.Valid <=>
              \E i \in ShellPositions(chain) :
                  /\ \A k \in ShellPositions(chain) : i <= k
                  /\ \A j \in TerminalPositions(chain) : ~(j < i)
        /\ terminalInfo.Valid => terminalInfo.Shell # ShellTypeUnknown

(* a shell nearer than the only terminal *)
C13_Witness ==
    /\ pc = "detected"
    /\ chain = <<<<"l", "o", "g", "i", "n">>, <<"z", "s", "h">>, <<"t", "m", "u", "x">>>>
    /\ terminalInfo.Valid
    /\ terminalInfo.Shell = ShellTypeZsh
    /\ terminalInfo.Terminals = <<TerminalTypeTmux>>

(* C18: the detected shell is the kind of the nearest chain entry that     *)
(* matches a shell candidate, whatever more distant entries match, and      *)
(* Unknown when no entry matches one.                                       *)
C18_NearestShell ==
    pc = "detected" =>
        terminalInfo.Shell =
            IF ShellPositions(chain) = {} THEN ShellTypeUnknown
            ELSE shellOf(chain[NthOf(ShellPositions(chain), 1)])

(* bash started from zsh *)
C18_Witness ==
    /\ pc = "detected"
    /\ chain = <<<<"l", "o", "g", "i", "n">>, <<"b", "a", "s", "h">>, <<"z", "s", "h">>>>
    /\ terminalInfo.Shell = ShellTypeBash

(* C28: a valid override changes the terminals list only: the shell and   *)
(* the valid flag are those detected from the same chain with no override.  *)
C28_OverrideLeavesShellAndValid ==
    (pc = "detected" /\ terminalOverride \in DOMAIN OverrideKind) =>
        LET plain == detectTerminalAndShell(chain, "")
        IN /\ terminalInfo.Shell = plain.Shell
           /\ terminalInfo.Valid = plain.Valid
           /\ terminalInfo.Terminals # plain.Terminals

(* override tmux on a chain with the shell nearer than its only terminal:   *)
(* the detection stays valid although tmux now heads the list               *)
C28_Witness ==
    /\ pc = "detected"
    /\ terminalOverride = "tmux"
    /\ chain = <<<<"z", "s", "h">>, <<"s", "s", "h", "d">>>>
    /\ terminalInfo = [Terminals |-> <<TerminalTypeTmux, TerminalTypeSSH>>,
                       Shell |-> ShellTypeZsh, Valid |-> TRUE]

(* the tests of terminal.go:56-78 one after the other on one name *)
KindInOrder(name) ==
    IF matchesTerminalName(name, <<"s", "s", "h", "d">>, TRUE) THEN TerminalTypeSSH
    ELSE IF matchesTerminalName(name, <<"t", "m", "u", "x">>, TRUE) THEN TerminalTypeTmux
    ELSE IF matchesTerminalName(name, <<"e", "t", "t", "e", "r", "m", "i", "n", "a", "l">>,
                                TRUE)
         THEN TerminalTypeETTerminal
    ELSE IF matchesTerminalName(name, <<"i", "t", "e", "r", "m", "2">>, FALSE)
         THEN TerminalTypeITerm2
    ELSE IF matchesTerminalName(name, <<"C", "o", "d", "e", " ", "H", "e", "l", "p", "e", "r">>,
                                FALSE)
         THEN TerminalTypeVSCode
    ELSE TerminalTypeUnknown

(* C22: every chain entry gives at most one terminal kind, the kind of the *)
(* first of sshd, tmux, etterminal, iterm2, Code Helper that its name       *)
(* matches: the detected terminals are those kinds in chain order, and      *)
(* there are never more of them than chain entries.                         *)
C22_OneKindPerEntry ==
    pc = "detected" =>
        LET kinds == [i \in 1..Len(chain) |-> KindInOrder(chain[i])]
            hits  == {i \in 1..Len(chain) : kinds[i] # TerminalTypeUnknown}
        IN /\ Len(DetectedTerminals) <= Len(chain)
           /\ Len(DetectedTerminals) = Cardinality(hits)
           /\ \A k \in 1..Len(DetectedTerminals) :
                 DetectedTerminals[k] = kinds[NthOf(hits, k)]

(* every entry of the chain is a terminal: as many kinds as entries *)
C22_Witness ==
    /\ pc = "detected"
    /\ terminalOverride = ""
    /\ chain = <<<<"s", "s", "h", "d">>, <<"i", "T", "e", "r", "m", "2">>,
                 <<"s", "s", "h", "d">>>>
    /\ Len(terminalInfo.Terminals) = Len(chain)
    /\ terminalInfo.Terminals = <<TerminalTypeSSH, TerminalTypeITerm2, TerminalTypeSSH>>

----------------------------------------------------------------------------
(* The kind "unknown" in the classifier and in the resolver.  The resolver  *)
(* takes any TerminalShellInfo (config.go:134), the tests build theirs by   *)
(* hand, and terminal_test.go:13-20 counts TerminalTypeUnknown among the    *)
(* members a terminals list may hold.                                       *)

UnknownShapes == {"absent", "other", "tab", "all"}

(* a profile with its own fields, a table keyed "unknown" and a tmux table *)
UnknownConfigs ==
    {("work" :> Tbl(ShapeMap(own, "work")
                    @@ (IF u = "absent" THEN EmptyMap
                        ELSE ("unknown" :> Tbl(ShapeMap(u, "unknown"))))
                    @@ (IF t = "absent" THEN EmptyMap
                        ELSE (TerminalTypeTmux :> Tbl(ShapeMap(t, TerminalTypeTmux)))))) :
        own \in {"tab", "all"}, u \in UnknownShapes, t \in {"absent", "fgbg"}}

UnknownInfos ==
    [Terminals : SeqsUpTo({TerminalTypeUnknown, TerminalTypeTmux}, MaxTerminals),
     Shell     : {ShellTypeUnknown, ShellTypeZsh},
     Valid     : {FALSE}]

UnknownChainNames == {<<"z", "s", "h">>, <<"t", "m", "u", "x">>, <<"l", "o", "g", "i", "n">>}

InitResolveUnknown ==
    /\ pc = "start"
    /\ config \in UnknownConfigs
    /\ profileName = "work"
    /\ terminalInfo \in UnknownInfos
    /\ profile = <<>>
    /\ err = <<>>
    /\ effects = <<>>
    /\ overlayArgs = <<>>
    /\ chain = <<>>
    /\ terminalOverride = ""
    /\ NoWalk
    /\ NoMatch
    /\ flags = DefaultFlags

InitDetectUnknown ==
    /\ InitDetect
    /\ \A i \in 1..Len(chain) : chain[i] \in UnknownChainNames

InitUnknown == InitResolveUnknown \/ InitDetectUnknown

NextUnknown == Resolve \/ Detect

SpecUnknown == InitUnknown /\ [][NextUnknown]_vars

(* C26: the kind Unknown selects no overlay: the classifier puts no        *)
(* Unknown into the terminals list for any chain and any override string,   *)
(* "unknown" included; and the resolver returns, for a profile holding a    *)
(* table keyed "unknown", what it returns for the profile without that      *)
(* table, whatever the shell and the terminals of the detection are.        *)
C26_UnknownSelectsNothing ==
    /\ pc = "detected" =>
          \A i \in 1..Len(terminalInfo.Terminals) :
              terminalInfo.Terminals[i] # TerminalTypeUnknown
    /\ (pc = "resolved" /\ "unknown" \in DOMAIN Node.val) =>
          getProfileWithTerminalInfo(WithoutNested("unknown"), profileName,
                                     terminalInfo).profile = profile

----------------------------------------------------------------------------
(* Detection with an override followed by resolution,                       *)
(* getProfileWithTerminalOverride                                           *)

PipelineNames ==
    {<<"z", "s", "h">>, <<"t", "m", "u", "x">>, <<"s", "s", "h", "d">>}

PipelineShapes ==
    [zsh        |-> {"absent", "all"},
     tmux       |-> {"absent", "scalar", "tab"},
     etterminal |-> {"absent", "fgbg"},
     iterm2     |-> {"absent", "all"}]

PipelineConfigs ==
    {("work" :> ProfileTable("tab", nested)) :
        nested \in {f \in NestedChoices : \A k \in NestedKeys : f[k] \in PipelineShapes[k]}}

InitPipeline ==
    /\ pc = "override"
    /\ chain \in SeqsUpTo(PipelineNames, MaxChain)
    /\ terminalOverride \in Overrides
    /\ config \in PipelineConfigs
    /\ profileName = "work"
    /\ terminalInfo = ZeroInfo
    /\ profile = <<>>
    /\ err = <<>>
    /\ effects = <<>>
    /\ overlayArgs = <<>>
    /\ NoWalk
    /\ NoMatch
    /\ flags = DefaultFlags

(* the helper detecting without handing the override on *)
getProfileDroppingOverride ==
    /\ pc = "override"
    /\ LET info == detectTerminalAndShell(chain, "")
           r    == getProfileWithTerminalInfo(config, profileName, info)
       IN /\ terminalInfo' = info
          /\ profile' = r.profile
          /\ err' = r.err
    /\ pc' = "overridden"
    /\ UNCHANGED <<config, profileName, effects, overlayArgs, chain, terminalOverride,
                   walkVars, matchVars, flags>>

getProfileWithTerminalOverride ==
    /\ pc = "override"
    /\ LET info == detectTerminalAndShell(chain, terminalOverride)
           r    == getProfileWithTerminalInfo(config, profileName, info)
       IN /\ terminalInfo' = info
          /\ profile' = r.profile
          /\ err' = r.err
    /\ pc' = "overridden"
    /\ UNCHANGED <<config, profileName, effects, overlayArgs, chain, terminalOverride,
                   walkVars, matchVars, flags>>

NextPipeline == getProfileWithTerminalOverride

SpecPipeline == InitPipeline /\ [][NextPipeline]_vars

(* C27: with an override naming kind K, when the profile has a valid        *)
(* nested entry for K every field that entry sets has its value and every   *)
(* other field the base+shell value, whatever terminals the chain holds;    *)
(* when the profile has no valid entry for K the result is the one of the   *)
(* same chain with no override.                                             *)
C27_OverrideThenFallback ==
    (pc = "overridden" /\ terminalOverride \in DOMAIN OverrideKind) =>
        LET K == OverrideKind[terminalOverride]
            plain == getProfileWithTerminalInfo(config, profileName,
                         detectTerminalAndShell(chain, ""))
        IN /\ err = <<>>
           /\ Len(profile) = 1
           /\ HasOverride(K) =>
                 \A f \in Fields :
                     profile[1][f] = IF FragmentField(Node.val[K], f) # ""
                                     THEN FragmentField(Node.val[K], f)
                                     ELSE BaseShellField(f)
           /\ ~HasOverride(K) => (profile = plain.profile /\ err = plain.err)

(* override etterminal inside tmux over ssh: the etterminal entry is the    *)
(* terminal layer although the nearer tmux has an entry of its own          *)
C27_Witness ==
    /\ pc = "overridden"
    /\ terminalOverride = "etterminal"
    /\ chain = <<<<"z", "s", "h">>, <<"t", "m", "u", "x">>, <<"s", "s", "h", "d">>>>
    /\ terminalInfo.Terminals = <<TerminalTypeETTerminal, TerminalTypeTmux, TerminalTypeSSH>>
    /\ HasOverride(TerminalTypeTmux)
    /\ HasOverride(TerminalTypeETTerminal)
    /\ ~HasOverride(ShellTypeZsh)
    /\ profile[1] = [Tab |-> "blue", Foreground |-> "lime", Background |-> "olive",
                     Preset |-> ""]

----------------------------------------------------------------------------
(* The process table and the walks over the ancestry, terminal.go           *)

MaxPid == 4

(* what gopsutil can fail on for one process: creating its handle           *)
(* (process.NewProcess), reading its name (Name) or its parent pid (Ppid)   *)
LookupFailures == {"none", "handle", "name", "ppid"}

(* os.Getpid(): the walking process is the youngest of the table *)
CurrentPid(table) == CHOOSE p \in DOMAIN table : \A q \in DOMAIN table : q <= p

(* process.NewProcess(pid) returns an error *)
NewProcessFails(table, pid) == pid \notin DOMAIN table \/ table[pid].fail = "handle"

Lookup(op, pid, ok) == [op |-> op, pid |-> pid, ok |-> ok]

(* the loop of isTerminalInAncestorChain from the process whose handle it   *)
(* holds, terminal.go:123-146                                               *)
RECURSIVE inAncestorChainFrom(_, _, _, _)
inAncestorChainFrom(table, pid, terminalName, caseSensitive) ==
    IF table[pid].fail = "name" THEN FALSE
    ELSE IF matchesTerminalName(table[pid].name, terminalName, caseSensitive) THEN TRUE
    ELSE IF table[pid].fail = "ppid" \/ table[pid].ppid <= 1 THEN FALSE
    ELSE IF NewProcessFails(table, table[pid].ppid) THEN FALSE
    ELSE inAncestorChainFrom(table, table[pid].ppid, terminalName, caseSensitive)

(* terminal.go:110-149 *)
isTerminalInAncestorChain(table, terminalName) ==
    IF NewProcessFails(table, CurrentPid(table)) THEN FALSE
    ELSE inAncestorChainFrom(table, CurrentPid(table), terminalName,
                             ToLower(terminalName) # <<"i", "t", "e", "r", "m">>)

(* detectTerminalType up to its loop, terminal.go:24-30 *)
TypeOpen ==
    /\ pc = "type_open"
    /\ LET pid == CurrentPid(procTable)
       IN IF NewProcessFails(procTable, pid)
          THEN /\ lookups' = Append(lookups, Lookup("handle", pid, FALSE))
               /\ termType' = TerminalTypeUnknown
               /\ pc' = "type_detected"
               /\ UNCHANGED proc
          ELSE /\ lookups' = Append(lookups, Lookup("handle", pid, TRUE))
               /\ proc' = pid
               /\ pc' = "type_loop"
               /\ UNCHANGED termType
    /\ UNCHANGED <<config, profileName, terminalInfo, profile, err, effects, overlayArgs,
                   chain, terminalOverride, procTable, matchVars, flags>>

(* an iteration that asks for the name a second time when the first query   *)
(* fails                                                                    *)
TypeStepRetryName ==
    /\ pc = "type_loop"
    /\ LET p      == procTable[proc]
           parent == p.ppid
       IN IF p.fail = "ppid"
          THEN /\ lookups' = Append(lookups, Lookup("ppid", proc, FALSE))
               /\ termType' = TerminalTypeUnknown
               /\ pc' = "type_detected"
               /\ UNCHANGED proc
          ELSE IF parent <= 1
          THEN /\ lookups' = Append(lookups, Lookup("ppid", proc, TRUE))
               /\ termType' = TerminalTypeUnknown
               /\ pc' = "type_detected"
               /\ UNCHANGED proc
          ELSE IF NewProcessFails(procTable, parent)
          THEN /\ lookups' = lookups \o <<Lookup("ppid", proc, TRUE),
                                          Lookup("handle", parent, FALSE)>>
               /\ termType' = TerminalTypeUnknown
               /\ pc' = "type_detected"
               /\ UNCHANGED proc
          ELSE IF procTable[parent].fail = "name"
          THEN /\ lookups' = lookups \o <<Lookup("ppid", proc, TRUE),
                                          Lookup("handle", parent, TRUE),
                                          Lookup("name", parent, FALSE),
                                          Lookup("name", parent, FALSE)>>
               /\ proc' = parent
               /\ UNCHANGED <<pc, termType>>
          ELSE /\ lookups' = lookups \o <<Lookup("ppid", proc, TRUE),
                                          Lookup("handle", parent, TRUE),
                                          Lookup("name", parent, TRUE)>>
               /\ proc' = parent
               /\ IF terminalOf(procTable[parent].name) # TerminalTypeUnknown
                  THEN /\ termType' = terminalOf(procTable[parent].name)
                       /\ pc' = "type_detected"
                  ELSE UNCHANGED <<pc, termType>>
    /\ UNCHANGED <<config, profileName, terminalInfo, profile, err, effects, overlayArgs,
                   chain, terminalOverride, procTable, matchVars, flags>>

(* one iteration of the loop of detectTerminalType, terminal.go:33-79, and  *)
(* the return that follows a break, terminal.go:81                          *)
TypeStep ==
    /\ pc = "type_loop"
    /\ LET p      == procTable[proc]
           parent == p.ppid
       IN IF p.fail = "ppid"
          THEN /\ lookups' = Append(lookups, Lookup("ppid", proc, FALSE))
               /\ termType' = TerminalTypeUnknown
               /\ pc' = "type_detected"
               /\ UNCHANGED proc
          ELSE IF parent <= 1
          THEN /\ lookups' = Append(lookups, Lookup("ppid", proc, TRUE))
               /\ termType' = TerminalTypeUnknown
               /\ pc' = "type_detected"
               /\ UNCHANGED proc
          ELSE IF NewProcessFails(procTable, parent)
          THEN /\ lookups' = lookups \o <<Lookup("ppid", proc, TRUE),
                                          Lookup("handle", parent, FALSE)>>
               /\ termType' = TerminalTypeUnknown
               /\ pc' = "type_detected"
               /\ UNCHANGED proc
          ELSE IF procTable[parent].fail = "name"
          THEN /\ lookups' = lookups \o <<Lookup("ppid", proc, TRUE),
                                          Lookup("handle", parent, TRUE),
                                          Lookup("name", parent, FALSE)>>
               /\ proc' = parent
               /\ UNCHANGED <<pc, termType>>
          ELSE /\ lookups' = lookups \o <<Lookup("ppid", proc, TRUE),
                                          Lookup("handle", parent, TRUE),
                                          Lookup("name", parent, TRUE)>>
               /\ proc' = parent
               /\ IF terminalOf(procTable[parent].name) # TerminalTypeUnknown
                  THEN /\ termType' = terminalOf(procTable[parent].name)
                       /\ pc' = "type_detected"
                  ELSE UNCHANGED <<pc, termType>>
    /\ UNCHANGED <<config, profileName, terminalInfo, profile, err, effects, overlayArgs,
                   chain, terminalOverride, procTable, matchVars, flags>>

----------------------------------------------------------------------------
(* The name matcher on its own and inside the two functions that test a     *)
(* process name against a candidate                                         *)

(* process names as the operating system reports them *)
MatchNames ==
    {<<"s", "s", "h", "d">>,
     <<"s", "s", "h", "d", " ", "s", "e", "r", "v", "e", "r">>,
     <<"s", "s", "h", "d", ":", " ", "n", "e", "t">>,
     <<"s", "s", "h", "d", "s", "e", "r", "v", "e", "r">>,
     <<"m", "y", "s", "s", "h", "d">>,
     <<"S", "S", "H", "D">>,
     <<"t", "m", "u", "x">>,
     <<"T", "m", "u", "x">>,
     <<"t", "m", "u", "x", ":", " ", "s", "e", "r", "v", "e", "r">>,
     <<"e", "t", "t", "e", "r", "m", "i", "n", "a", "l">>,
     <<"i", "t", "e", "r", "m", "2">>,
     <<"i", "T", "e", "r", "m", "2">>,
     <<"I", "T", "E", "R", "M", "2">>,
     <<"i", "T", "e", "r", "m">>,
     <<"C", "o", "d", "e", " ", "H", "e", "l", "p", "e", "r">>,
     <<"c", "o", "d", "e", " ", "h", "e", "l", "p", "e", "r">>,
     <<"C", "o", "d", "e", " ", "H", "e", "l", "p", "e", "r", " ", "(", "G", "P", "U", ")">>,
     <<"z", "s", "h">>,
     <<"Z", "s", "h">>,
     <<"b", "a", "s", "h">>,
     <<"s", "h">>}

(* the names a process name is tested against *)
MatchCandidates ==
    {TerminalCandidates[i].name : i \in 1..Len(TerminalCandidates)}
        \cup {ShellCandidates[i].name : i \in 1..Len(ShellCandidates)}
        \cup {<<"i", "t", "e", "r", "m">>, <<"I", "T", "E", "R", "M">>}

(* the name of the walking process itself *)
SelfName == <<"s", "e", "t", "-", "t", "a", "b", "-", "c", "o", "l", "o", "r">>

(* a process named processName is the parent of the walking process *)
InitMatch ==
    /\ pc = "match"
    /\ matchArgs \in {<<n, c, cs>> : n \in MatchNames, c \in MatchCandidates, cs \in BOOLEAN}
    /\ matched = <<>>
    /\ inChain = <<>>
    /\ procTable = [pid \in {2, 3} |->
                       IF pid = 3 THEN [name |-> SelfName, ppid |-> 2, fail |-> "none"]
                       ELSE [name |-> matchArgs[1], ppid |-> 1, fail |-> "none"]]
    /\ proc = 0
    /\ lookups = <<>>
    /\ termType = ""
    /\ config = EmptyMap
    /\ profileName = ""
    /\ terminalInfo = ZeroInfo
    /\ profile = <<>>
    /\ err = <<>>
    /\ effects = <<>>
    /\ overlayArgs = <<>>
    /\ chain = <<>>
    /\ terminalOverride = ""
    /\ flags = DefaultFlags

Match ==
    /\ pc = "match"
    /\ matched' = <<matchesTerminalName(matchArgs[1], matchArgs[2], matchArgs[3])>>
    /\ pc' = "in_chain"
    /\ UNCHANGED <<config, profileName, terminalInfo, profile, err, effects, overlayArgs,
                   chain, terminalOverride, walkVars, matchArgs, inChain, flags>>

InChain ==
    /\ pc = "in_chain"
    /\ inChain' = <<isTerminalInAncestorChain(procTable, matchArgs[2])>>
    /\ pc' = "type_open"
    /\ UNCHANGED <<config, profileName, terminalInfo, profile, err, effects, overlayArgs,
                   chain, terminalOverride, walkVars, matchArgs, matched, flags>>

NextMatch == Match \/ InChain \/ TypeOpen \/ TypeStep

SpecMatch == InitMatch /\ [][NextMatch]_vars

(* the name with its case folded when the comparison is case-insensitive *)
Folded(name, caseSensitive) == IF caseSensitive THEN name ELSE ToLower(name)

(* name is candidate, or candidate followed by one of the separators and    *)
(* anything after it                                                        *)
AcceptedWith(name, candidate, separators) ==
    \/ name = candidate
    \/ /\ Len(name) > Len(candidate)
       /\ \A i \in 1..Len(candidate) : name[i] = candidate[i]
       /\ name[Len(candidate) + 1] \in separators

(* C11 as stated: matchesTerminalName is true exactly when, after folding   *)
(* case for a case-insensitive comparison, the process name equals the      *)
(* candidate or begins with the candidate followed by a space or a colon.   *)
C11_SpaceOrColon ==
    matched # <<>> =>
        (matched[1] <=> AcceptedWith(Folded(matchArgs[1], matchArgs[3]),
                                     Folded(matchArgs[2], matchArgs[3]), {" ", ":"}))

(* C11: matchesTerminalName is true exactly when, after folding case for a  *)
(* case-insensitive comparison, the process name equals the candidate or    *)
(* begins with the candidate followed by a single space; a colon after the  *)
(* candidate, or the candidate as a mere substring, does not match.         *)
C11_ExactOrSpacePrefix ==
    matched # <<>> =>
        (matched[1] <=> AcceptedWith(Folded(matchArgs[1], matchArgs[3]),
                                     Folded(matchArgs[2], matchArgs[3]), {" "}))

(* "sshd server" tested against "sshd" *)
C11_Witness ==
    /\ matched = <<TRUE>>
    /\ matchArgs = <<<<"s", "s", "h", "d", " ", "s", "e", "r", "v", "e", "r">>,
                     <<"s", "s", "h", "d">>, TRUE>>

(* the candidates the classification tests a process name against *)
ClassifierCandidates ==
    {TerminalCandidates[i].name : i \in 1..Len(TerminalCandidates)}
        \cup {ShellCandidates[i].name : i \in 1..Len(ShellCandidates)}

(* the stated policy: only "iterm2" and "Code Helper" are compared without  *)
(* regard to case                                                           *)
PolicyCaseSensitive(candidate) ==
    candidate \notin {<<"i", "t", "e", "r", "m", "2">>,
                      <<"C", "o", "d", "e", " ", "H", "e", "l", "p", "e", "r">>}

AcceptedByPolicy(name, candidate) ==
    AcceptedWith(Folded(name, PolicyCaseSensitive(candidate)),
                 Folded(candidate, PolicyCaseSensitive(candidate)), {" "})

(* the kind of the first terminal candidate that accepts the name *)
KindByPolicy(name) ==
    LET hits == {i \in 1..Len(TerminalCandidates) :
                    AcceptedByPolicy(name, TerminalCandidates[i].name)}
    IN IF hits = {} THEN TerminalTypeUnknown
       ELSE TerminalCandidates[NthOf(hits, 1)].kind

(* C17 as stated: in every function that tests a process name against a    *)
(* candidate, "iterm2" and "Code Helper" are compared without regard to     *)
(* case and every other candidate case-sensitively: isTerminalInAncestorChain *)
(* finds a candidate exactly when the parent's name is accepted under that  *)
(* policy, and detectTerminalType returns the kind accepted under it.       *)
C17_CasePolicy ==
    /\ (inChain # <<>> /\ matchArgs[2] \in ClassifierCandidates) =>
           (inChain[1] <=> AcceptedByPolicy(matchArgs[1], matchArgs[2]))
    /\ pc = "type_detected" => termType = KindByPolicy(matchArgs[1])

----------------------------------------------------------------------------
(* getProcessAncestorChain and detectTerminalType over process tables       *)

WalkNames ==
    {<<"z", "s", "h">>, <<"t", "m", "u", "x">>, <<"s", "s", "h", "d">>}

(* the processes 2..MaxPid, the youngest walking; each is the child of the  *)
(* next older one or of pid 0, and the oldest a child of pid 1 or 0         *)
ProcessTables ==
    {[pid \in 2..MaxPid |->
         [name |-> names[pid],
          ppid |-> IF orphan[pid] THEN 0 ELSE pid - 1,
          fail |-> failing[pid]]] :
        names \in [2..MaxPid -> WalkNames],
        orphan \in [2..MaxPid -> BOOLEAN],
        failing \in [2..MaxPid -> LookupFailures]}

(* getProcessAncestorChain with a nil error when the first handle fails *)
WalkOpenNoError ==
    /\ pc = "walk_open"
    /\ LET pid == CurrentPid(procTable)
       IN IF NewProcessFails(procTable, pid)
          THEN /\ lookups' = Append(lookups, Lookup("handle", pid, FALSE))
               /\ chain' = <<>>
               /\ pc' = "walked"
               /\ UNCHANGED <<proc, err>>
          ELSE /\ lookups' = Append(lookups, Lookup("handle", pid, TRUE))
               /\ proc' = pid
               /\ pc' = "walk_loop"
               /\ UNCHANGED <<chain, err>>
    /\ UNCHANGED <<config, profileName, terminalInfo, profile, effects, overlayArgs,
                   terminalOverride, procTable, termType, matchVars, flags>>

(* getProcessAncestorChain up to its loop, terminal.go:152-158 *)
WalkOpen ==
    /\ pc = "walk_open"
    /\ LET pid == CurrentPid(procTable)
       IN IF NewProcessFails(procTable, pid)
          THEN /\ lookups' = Append(lookups, Lookup("handle", pid, FALSE))
               /\ chain' = <<>>
               /\ err' = <<"process does not exist">>
               /\ pc' = "walked"
               /\ UNCHANGED proc
          ELSE /\ lookups' = Append(lookups, Lookup("handle", pid, TRUE))
               /\ proc' = pid
               /\ pc' = "walk_loop"
               /\ UNCHANGED <<chain, err>>
    /\ UNCHANGED <<config, profileName, terminalInfo, profile, effects, overlayArgs,
                   terminalOverride, procTable, termType, matchVars, flags>>

(* an iteration that leaves out a name the chain already holds *)
WalkStepDedup ==
    /\ pc = "walk_loop"
    /\ LET p      == procTable[proc]
           parent == p.ppid
       IN IF p.fail = "name"
          THEN /\ lookups' = Append(lookups, Lookup("name", proc, FALSE))
               /\ pc' = "walked"
               /\ UNCHANGED <<chain, proc>>
          ELSE /\ chain' = IF \E i \in 1..Len(chain) : chain[i] = p.name
                           THEN chain ELSE Append(chain, p.name)
               /\ IF p.fail = "ppid"
                  THEN /\ lookups' = lookups \o <<Lookup("name", proc, TRUE),
                                                  Lookup("ppid", proc, FALSE)>>
                       /\ pc' = "walked"
                       /\ UNCHANGED proc
                  ELSE IF parent <= 1
                  THEN /\ lookups' = lookups \o <<Lookup("name", proc, TRUE),
                                                  Lookup("ppid", proc, TRUE)>>
                       /\ pc' = "walked"
                       /\ UNCHANGED proc
                  ELSE IF NewProcessFails(procTable, parent)
                  THEN /\ lookups' = lookups \o <<Lookup("name", proc, TRUE),
                                                  Lookup("ppid", proc, TRUE),
                                                  Lookup("handle", parent, FALSE)>>
                       /\ pc' = "walked"
                       /\ UNCHANGED proc
                  ELSE /\ lookups' = lookups \o <<Lookup("name", proc, TRUE),
                                                  Lookup("ppid", proc, TRUE),
                                                  Lookup("handle", parent, TRUE)>>
                       /\ proc' = parent
                       /\ UNCHANGED pc
    /\ UNCHANGED <<config, profileName, terminalInfo, profile, err, effects, overlayArgs,
                   terminalOverride, procTable, termType, matchVars, flags>>

(* one iteration of the loop of getProcessAncestorChain, terminal.go:160-180, *)
(* and the return that follows a break, terminal.go:182                      *)
WalkStep ==
    /\ pc = "walk_loop"
    /\ LET p      == procTable[proc]
           parent == p.ppid
       IN IF p.fail = "name"
          THEN /\ lookups' = Append(lookups, Lookup("name", proc, FALSE))
               /\ pc' = "walked"
               /\ UNCHANGED <<chain, proc>>
          ELSE /\ chain' = Append(chain, p.name)
               /\ IF p.fail = "ppid"
                  THEN /\ lookups' = lookups \o <<Lookup("name", proc, TRUE),
                                                  Lookup("ppid", proc, FALSE)>>
                       /\ pc' = "walked"
                       /\ UNCHANGED proc
                  ELSE IF parent <= 1
                  THEN /\ lookups' = lookups \o <<Lookup("name", proc, TRUE),
                                                  Lookup("ppid", proc, TRUE)>>
                       /\ pc' = "walked"
                       /\ UNCHANGED proc
                  ELSE IF NewProcessFails(procTable, parent)
                  THEN /\ lookups' = lookups \o <<Lookup("name", proc, TRUE),
                                                  Lookup("ppid", proc, TRUE),
                                                  Lookup("handle", parent, FALSE)>>
                       /\ pc' = "walked"
                       /\ UNCHANGED proc
                  ELSE /\ lookups' = lookups \o <<Lookup("name", proc, TRUE),
                                                  Lookup("ppid", proc, TRUE),
                                                  Lookup("handle", parent, TRUE)>>
                       /\ proc' = parent
                       /\ UNCHANGED pc
    /\ UNCHANGED <<config, profileName, terminalInfo, profile, err, effects, overlayArgs,
                   terminalOverride, procTable, termType, matchVars, flags>>

(* the caller of getProcessAncestorChain, config.go:183-189: the chain is   *)
(* printed when there is no error, the error is dropped otherwise, and the  *)
(* resolution goes on                                                       *)
ReportChain ==
    /\ pc = "walked"
    /\ err' = <<>>
    /\ pc' = "reported"
    /\ UNCHANGED <<config, profileName, terminalInfo, profile, effects, overlayArgs, chain,
                   terminalOverride, walkVars, matchVars, flags>>

InitWalk ==
    /\ pc = "walk_open"
    /\ procTable \in ProcessTables
    /\ proc = 0
    /\ lookups = <<>>
    /\ termType = ""
    /\ chain = <<>>
    /\ err = <<>>
    /\ config = EmptyMap
    /\ profileName = ""
    /\ terminalInfo = ZeroInfo
    /\ profile = <<>>
    /\ effects = <<>>
    /\ overlayArgs = <<>>
    /\ terminalOverride = ""
    /\ NoMatch
    /\ flags = DefaultFlags

NextWalk == WalkOpen \/ WalkStep \/ ReportChain

SpecWalk == InitWalk /\ [][NextWalk]_vars

InitDetectType ==
    /\ pc = "type_open"
    /\ procTable \in ProcessTables
    /\ proc = 0
    /\ lookups = <<>>
    /\ termType = ""
    /\ chain = <<>>
    /\ err = <<>>
    /\ config = EmptyMap
    /\ profileName = ""
    /\ terminalInfo = ZeroInfo
    /\ profile = <<>>
    /\ effects = <<>>
    /\ overlayArgs = <<>>
    /\ terminalOverride = ""
    /\ NoMatch
    /\ flags = DefaultFlags

NextDetectType == TypeOpen \/ TypeStep

SpecDetectType == InitDetectType /\ [][NextDetectType]_vars

(* the pids met by following the parent links from pid, nearest first,      *)
(* up to the last one whose parent has an id above 1                        *)
RECURSIVE Lineage(_, _)
Lineage(table, pid) ==
    <<pid>> \o (IF table[pid].ppid <= 1 THEN <<>> ELSE Lineage(table, table[pid].ppid))

(* the longest prefix of the lineage of the walking process that can be     *)
(* read: every handle and name in it is obtained, and every parent id       *)
(* except possibly the last one's                                           *)
ReadableLineage(table) ==
    LET line == Lineage(table, CurrentPid(table))
        ok(k) == /\ \A i \in 1..k : table[line[i]].fail \notin {"handle", "name"}
                 /\ \A i \in 1..(k - 1) : table[line[i]].fail # "ppid"
        best == CHOOSE k \in 0..Len(line) :
                    ok(k) /\ \A m \in 0..Len(line) : ok(m) => m <= k
    IN SubSeq(line, 1, best)

NamesOf(table, pids) == [i \in 1..Len(pids) |-> table[pids[i]].name]

(* C14 as stated: the chain holds the names of the ancestors reached by     *)
(* following parent links, nearest first, without the walking process.      *)
C14_AncestorsOnly ==
    pc = "walked" =>
        chain = IF ReadableLineage(procTable) = <<>> THEN <<>>
                ELSE NamesOf(procTable, Tail(ReadableLineage(procTable)))

(* C14: the chain returned by getProcessAncestorChain starts with the name  *)
(* of the walking process itself and continues with the names of the        *)
(* processes reached by following parent links, nearest first, stopping     *)
(* before a process with id at most 1; no name is skipped or deduplicated.  *)
C14_ChainFromSelf ==
    pc = "walked" => chain = NamesOf(procTable, ReadableLineage(procTable))

(* a walk without failures through zsh, tmux and zsh again *)
C14_Witness ==
    /\ pc = "walked"
    /\ \A pid \in DOMAIN procTable : procTable[pid].fail = "none"
    /\ chain = <<<<"z", "s", "h">>, <<"t", "m", "u", "x">>, <<"z", "s", "h">>>>

(* C19 as stated: a failed lookup is the last lookup of a walk, and no     *)
(* terminal is classified from a process beyond it.                         *)
C19_FailureEndsWalk ==
    /\ \A i \in 1..Len(lookups) : ~lookups[i].ok => i = Len(lookups)
    /\ (pc = "type_detected" /\ termType # TerminalTypeUnknown) =>
           \A i \in 1..Len(lookups) : lookups[i].ok

(* C20 as stated: when the parent lookup of the walking process fails, the  *)
(* chain is empty and an error is returned.                                 *)
C20_EmptyChainAndError ==
    (pc = "walked" /\ procTable[CurrentPid(procTable)].fail = "ppid") =>
        (chain = <<>> /\ err # <<>>)

(* C20: getProcessAncestorChain returns an empty chain with an error only   *)
(* when the handle of the walking process cannot be obtained; when its name *)
(* cannot be read the chain is empty without an error, and when its parent  *)
(* lookup fails the chain holds its own name without an error.  The caller  *)
(* goes on without an error in every case.                                  *)
C20_FirstLookupFailure ==
    LET self == procTable[CurrentPid(procTable)]
    IN /\ pc = "walked" =>
            /\ self.fail = "handle" => (chain = <<>> /\ err # <<>>)
            /\ self.fail = "name" => (chain = <<>> /\ err = <<>>)
            /\ self.fail = "ppid" => (chain = <<self.name>> /\ err = <<>>)
            /\ err # <<>> => self.fail = "handle"
       /\ pc = "reported" => err = <<>>

(* the parent lookup of the walking process failed and the caller went on *)
C20_Witness ==
    /\ pc = "reported"
    /\ procTable[CurrentPid(procTable)].fail = "ppid"
    /\ chain = <<procTable[CurrentPid(procTable)].name>>

----------------------------------------------------------------------------
(* The two walks run to their return.  Each is a sequential loop of one     *)
(* goroutine with no blocking call besides the gopsutil queries, which      *)
(* return: a step that can be taken is taken.                               *)

(* the names that tell the two walks apart: a shell and a terminal *)
AncestryNames == {<<"z", "s", "h">>, <<"t", "m", "u", "x">>}

InitAncestry ==
    /\ InitWalk \/ InitDetectType
    /\ \A p \in DOMAIN procTable : procTable[p].name \in AncestryNames

NextAncestry == WalkOpen \/ WalkStep \/ ReportChain \/ TypeOpen \/ TypeStep

SpecAncestry == InitAncestry /\ [][NextAncestry]_vars /\ WF_vars(NextAncestry)

(* no query is put to the same process twice *)
NoRetry ==
    \A i, j \in 1..Len(lookups) :
        (lookups[i].op = lookups[j].op /\ lookups[i].pid = lookups[j].pid) => i = j

(* a handle, a name and a parent query at most for every process of the     *)
(* lineage of the walking process                                           *)
OneRoundPerAncestor ==
    /\ Len(lookups) <= 3 * Len(Lineage(procTable, CurrentPid(procTable)))
    /\ \A i \in 1..Len(lookups) :
          \E k \in 1..Len(Lineage(procTable, CurrentPid(procTable))) :
              lookups[i].pid = Lineage(procTable, CurrentPid(procTable))[k]

WalkReturned == pc \in {"reported", "type_detected"}

(* C23: on every process table whose parent links lead from the walking    *)
(* process to an id <= 1 or to a failing lookup, each walk asks every       *)
(* ancestor at most once for its handle, name and parent, never repeats a   *)
(* query, and returns.                                                      *)
C23_WalkTerminates ==
    [](NoRetry /\ OneRoundPerAncestor) /\ <>WalkReturned

(* the terminal walk over three processes: the name of the parent cannot    *)
(* be read, the walk goes on to the grandparent and returns its kind        *)
C23_Witness ==
    /\ pc = "type_detected"
    /\ Len(Lineage(procTable, CurrentPid(procTable))) = 3
    /\ procTable[3].fail = "name"
    /\ termType = TerminalTypeTmux
    /\ Len(lookups) = 7
    /\ lookups[4] = Lookup("name", 3, FALSE)
    /\ lookups[5] = Lookup("ppid", 3, TRUE)

----------------------------------------------------------------------------
(* Chained overlays, as the resolver builds them, config.go:192-232         *)

ProfilesOver(values) ==
    [Tab : values, Foreground : values, Background : values, Preset : values]

(* three layers whose values tell the layers apart *)
InitAssoc ==
    /\ pc = "overlay3"
    /\ overlayArgs \in {<<a, b, c>> : a \in ProfilesOver({"", "blue"}),
                                      b \in ProfilesOver({"", "red"}),
                                      c \in ProfilesOver({"", "green"})}
    /\ config = EmptyMap
    /\ profileName = ""
    /\ terminalInfo = ZeroInfo
    /\ profile = <<>>
    /\ err = <<>>
    /\ effects = <<>>
    /\ chain = <<>>
    /\ terminalOverride = ""
    /\ NoWalk
    /\ NoMatch
    /\ flags = DefaultFlags

(* the two groupings of three layers, and the first layer overlaid on and   *)
(* by the empty profile                                                     *)
OverlayChain ==
    /\ pc = "overlay3"
    /\ profile' = <<overlayProfile(overlayProfile(overlayArgs[1], overlayArgs[2]),
                                   overlayArgs[3]),
                    overlayProfile(overlayArgs[1],
                                   overlayProfile(overlayArgs[2], overlayArgs[3])),
                    overlayProfile(EmptyProfile, overlayArgs[1]),
                    overlayProfile(overlayArgs[1], EmptyProfile)>>
    /\ pc' = "overlaid3"
    /\ UNCHANGED <<config, profileName, terminalInfo, err, effects, overlayArgs, chain,
                   terminalOverride, walkVars, matchVars, flags>>

NextAssoc == OverlayChain

SpecAssoc == InitAssoc /\ [][NextAssoc]_vars

(* C16: overlaying is associative, and the empty profile is an identity    *)
(* on either side.                                                          *)
C16_OverlayAssociative ==
    pc = "overlaid3" =>
        /\ profile[1] = profile[2]
        /\ profile[3] = overlayArgs[1]
        /\ profile[4] = overlayArgs[1]

(* a full base under a layer that sets the tab and one that sets the        *)
(* foreground                                                               *)
C16_Witness ==
    /\ pc = "overlaid3"
    /\ overlayArgs[1] = [Tab |-> "blue", Foreground |-> "blue", Background |-> "blue",
                         Preset |-> "blue"]
    /\ overlayArgs[2] = [Tab |-> "red", Foreground |-> "red", Background |-> "",
                         Preset |-> ""]
    /\ overlayArgs[3] = [Tab |-> "", Foreground |-> "green", Background |-> "",
                         Preset |-> ""]
    /\ profile[1] = [Tab |-> "red", Foreground |-> "green", Background |-> "blue",
                     Preset |-> "blue"]
    /\ profile[2] = profile[1]

----------------------------------------------------------------------------
(* The command line: main, terminal.go:236-372                              *)

FlagSets ==
    [tab : {"", "red"}, fg : {"", "white"}, bg : {"", "black"}, preset : {"", "Ocean"},
     profile : {"", "work", "nonexistent"}, terminal : {"", "tmux"},
     listProfiles : BOOLEAN, listColors : BOOLEAN]

(* stores with a profile "work" that has a tmux overlay *)
MainConfigs ==
    {("work" :> ProfileTable(own, [k \in NestedKeys |->
                                      IF k = TerminalTypeTmux THEN "tab" ELSE "absent"])) :
        own \in {"tab", "all"}}

HasColorOption(f) == f.tab # "" \/ f.fg # "" \/ f.bg # "" \/ f.preset # ""

(* the checks of main without the one on -profile with colour options *)
validateFlagsNoMix(f) ==
    IF f.terminal # "" /\ f.profile = ""
    THEN <<"-terminal option can only be used with -profile">>
    ELSE IF f.profile = "" /\ ~HasColorOption(f)
    THEN <<"At least one color option, preset, or profile must be specified">>
    ELSE <<>>

(* the checks of main on the combination of options, terminal.go:306-311,  *)
(* 314-320 and 337-341: the message of the first one that fails, <<>> when  *)
(* none does                                                                *)
validateFlags(f) ==
    IF f.terminal # "" /\ f.profile = ""
    THEN <<"-terminal option can only be used with -profile">>
    ELSE IF f.profile # "" /\ HasColorOption(f)
    THEN <<"Cannot use -profile with individual color options or -preset">>
    ELSE IF f.profile = "" /\ ~HasColorOption(f)
    THEN <<"At least one color option, preset, or profile must be specified">>
    ELSE <<>>

InitMain ==
    /\ pc = "main"
    /\ flags \in FlagSets
    /\ profileName = flags.profile
    /\ terminalOverride = flags.terminal
    /\ config \in MainConfigs
    /\ chain = <<<<"z", "s", "h">>, <<"t", "m", "u", "x">>>>
    /\ terminalInfo = ZeroInfo
    /\ profile = <<>>
    /\ err = <<>>
    /\ effects = <<>>
    /\ overlayArgs = <<>>
    /\ NoWalk
    /\ NoMatch

(* -list-profiles and -list-colors: the list is printed and main returns,   *)
(* or loading it fails and main exits with status 1                         *)
MainList ==
    /\ pc = "main"
    /\ flags.listProfiles \/ flags.listColors
    /\ \E loaded \in BOOLEAN :
          IF loaded
          THEN pc' = "returned" /\ UNCHANGED err
          ELSE /\ pc' = "exited"
               /\ err' = <<IF flags.listProfiles THEN "Error loading profiles: "
                           ELSE "Error loading CSS colors: ">>
    /\ UNCHANGED <<config, profileName, terminalInfo, profile, effects, overlayArgs, chain,
                   terminalOverride, walkVars, matchVars, flags>>

(* an option combination main refuses: message, usage, exit status 1 *)
MainReject ==
    /\ pc = "main"
    /\ ~(flags.listProfiles \/ flags.listColors)
    /\ validateFlags(flags) # <<>>
    /\ err' = validateFlags(flags)
    /\ pc' = "exited"
    /\ UNCHANGED <<config, profileName, terminalInfo, profile, effects, overlayArgs, chain,
                   terminalOverride, walkVars, matchVars, flags>>

(* the profile branch up to applyProfile *)
MainProfile ==
    /\ pc = "main"
    /\ ~(flags.listProfiles \/ flags.listColors)
    /\ validateFlags(flags) = <<>>
    /\ flags.profile # ""
    /\ LET info == detectTerminalAndShell(chain, flags.terminal)
           r    == getProfileWithTerminalInfo(config, flags.profile, info)
       IN /\ terminalInfo' = info
          /\ profile' = r.profile
          /\ IF r.err # <<>>
             THEN /\ err' = <<"Error loading profile: ">> \o r.err
                  /\ pc' = "exited"
             ELSE /\ pc' = StepPc[ApplySequence[1]]
                  /\ UNCHANGED err
    /\ UNCHANGED <<config, profileName, effects, overlayArgs, chain, terminalOverride,
                   walkVars, matchVars, flags>>

(* the options given directly, in the order main applies them *)
DirectPc == [preset |-> "direct_preset", tab |-> "direct_tab", fg |-> "direct_fg",
             bg |-> "direct_bg"]

DirectNext == [preset |-> "direct_tab", tab |-> "direct_fg", fg |-> "direct_bg",
               bg |-> "returned"]

DirectErrorPrefix ==
    [preset |-> "Error setting preset: ",
     tab    |-> "Error setting tab color: ",
     fg     |-> "Error setting foreground color: ",
     bg     |-> "Error setting background color: "]

MainDirect ==
    /\ pc = "main"
    /\ ~(flags.listProfiles \/ flags.listColors)
    /\ validateFlags(flags) = <<>>
    /\ flags.profile = ""
    /\ pc' = DirectPc.preset
    /\ UNCHANGED <<config, profileName, terminalInfo, profile, err, effects, overlayArgs,
                   chain, terminalOverride, walkVars, matchVars, flags>>

(* one of the four blocks of main for a directly given option: skipped when *)
(* the option is empty, otherwise one call whose error exits with status 1  *)
DirectBlock(target) ==
    /\ pc = DirectPc[target]
    /\ \/ /\ flags[target] = ""
          /\ pc' = DirectNext[target]
          /\ UNCHANGED <<effects, err>>
       \/ /\ flags[target] # ""
          /\ \E outcome \in RunOutcomes :
                LET r == IF target = "preset"
                         THEN runSetPreset(flags.preset, outcome)
                         ELSE runSetColor(target, flags[target], outcome)
                IN /\ effects' = effects \o r.executed
                   /\ IF r.err = <<>>
                      THEN pc' = DirectNext[target] /\ UNCHANGED err
                      ELSE pc' = "exited" /\ err' = <<DirectErrorPrefix[target]>> \o r.err
    /\ UNCHANGED <<config, profileName, terminalInfo, profile, overlayArgs, chain,
                   terminalOverride, walkVars, matchVars, flags>>

DirectPreset == DirectBlock("preset")
DirectTab == DirectBlock("tab")
DirectForeground == DirectBlock("fg")
DirectBackground == DirectBlock("bg")

NextMain ==
    \/ MainList \/ MainReject \/ MainProfile \/ MainDirect
    \/ ApplyPreset \/ ApplyTab \/ ApplyForeground \/ ApplyBackground
    \/ DirectPreset \/ DirectTab \/ DirectForeground \/ DirectBackground

SpecMain == InitMain /\ [][NextMain]_vars

(* -profile together with a colour option or -preset, or -terminal without  *)
(* -profile                                                                 *)
BadCombination(f) ==
    \/ f.profile # "" /\ (f.tab # "" \/ f.fg # "" \/ f.bg # "" \/ f.preset # "")
    \/ f.terminal # "" /\ f.profile = ""

(* C15 as stated: such an invocation has no side effect and main rejects   *)
(* it with an error.                                                        *)
C15_RejectedWithError ==
    BadCombination(flags) =>
        /\ effects = <<>>
        /\ pc # "main" => (pc = "exited" /\ err # <<>>)

(* C15: such an invocation never has a colour or preset side effect; main  *)
(* rejects it with the matching error before anything is applied, unless    *)
(* -list-profiles or -list-colors is also given, in which case main only    *)
(* lists.                                                                   *)
C15_NoEffectWhenRejected ==
    BadCombination(flags) =>
        /\ effects = <<>>
        /\ profile = <<>>
        /\ pc \in {"main", "exited", "returned"}
        /\ (pc # "main" /\ ~(flags.listProfiles \/ flags.listColors)) =>
              /\ pc = "exited"
              /\ err = IF flags.profile = ""
                       THEN <<"-terminal option can only be used with -profile">>
                       ELSE <<"Cannot use -profile with individual color options or -preset">>

(* -profile work -tab red is refused *)
C15_Witness ==
    /\ pc = "exited"
    /\ flags = [DefaultFlags EXCEPT !.profile = "work", !.tab = "red"]
    /\ effects = <<>>
    /\ err = <<"Cannot use -profile with individual color options or -preset">>

====
